------------------------------- MODULE Reader -------------------------------
(***************************************************************************)
(* ZTDFReaderWrapper and ZTDFReader of lib/src/opentdf.ts, the reader that   *)
(* OpenTDF.open returns.  The wrapper finds out what the source holds and    *)
(* then delegates; the reader loads the overview of the archive once, for    *)
(* all calls, and decrypts as often as it is asked.                          *)
(*                                                                         *)
(* The application makes calls at any time, of which each waits for what it  *)
(* awaits.  Recovery of the key, the KASes and the signatures are one answer *)
(* to the call (KeyUnwrap); the list of servers is read page by page.        *)
(***************************************************************************)
EXTENDS KeyAccessServers, RemoteChunk

CONSTANTS
  Calls,            (* numbered in the order in which they are made           *)
  Deployments,      (* what a reader is opened with: the file, the options,   *)
                    (* the KASes of the file's key, the registry              *)
  manifestMaxSize

ASSUME CallsAssumption == Calls \subseteq Nat /\ Calls = Clients
ASSUME DeploymentsAssumption == \A d \in Deployments : d.registry \in Seq(Servers)

Archive == INSTANCE ZipReader

VARIABLES
  deployment,       (* one of Deployments                                     *)
  state,            (* of the wrapper                                         *)
  delegate,         (* the promise of resolveType                             *)
  overview,         (* the promise of loadTDFStream, and the reads it has made *)
  requiredObligations,
  call,             (* each call: its operation, where it is, its value        *)
  completed         (* the calls whose decryption is complete, in that order  *)

wrapperVars == <<state, delegate>>
readerVars == <<overview, requiredObligations, completed>>
sourceVars == <<deployment, fetch>>
vars == <<sourceVars, wrapperVars, readerVars, call, registryVars>>

Operations == {"decrypt", "obligations", "manifest", "close"}
Nothing == 0              (* undefined                                        *)
NoList == {Nothing}

file == deployment.file
opts == deployment.opts

Pending == [at |-> "pending", reads |-> 0, entries |-> {}]
NotCalled == [op |-> "none", at |-> "idle", value |-> Nothing, since |-> 0]

Init ==
  /\ deployment \in Deployments
  /\ state = "resolving"
  /\ delegate = "source"
  /\ overview = Pending
  /\ requiredObligations = Nothing
  /\ call = [c \in Calls |-> NotCalled]
  /\ completed = <<>>
  /\ fetch = FirstAttempt
  /\ RegistryInit(deployment.registry)

Moves(c, at) == call' = [call EXCEPT ![c].at = at]
Resolves(c, value) == call' = [call EXCEPT ![c].at = "resolved", ![c].value = value]
Rejects(c) == Moves(c, "rejected")

-----------------------------------------------------------------------------
(* resolveType: the source is opened, and its first bytes are read.  Then    *)
(* the state is set, whatever it was.                                        *)
OpenSource ==
  /\ delegate = "source"
  /\ delegate' \in {"prefix", "rejected"}
  /\ UNCHANGED <<sourceVars, state, readerVars, call, registryVars>>

(* A read of the source ends; one of a URL as RemoteChunk says, and the next  *)
(* one is made at once.                                                      *)
Arrives ==
  IF deployment.remote THEN fetch.at = "read" /\ fetch' = FirstAttempt ELSE UNCHANGED fetch
IsLost == (deployment.remote => Failed) /\ UNCHANGED fetch

Reading == delegate = "prefix" \/ (delegate = "reader" /\ overview.at = "pending")
FetchRemote ==
  /\ deployment.remote
  /\ Reading
  /\ FetchStep
  /\ UNCHANGED <<deployment, wrapperVars, readerVars, call, registryVars>>

ReadPrefix ==
  /\ delegate = "prefix"
  /\ Arrives
  /\ IF deployment.zip
       THEN delegate' = "reader" /\ state' = "loaded"
       ELSE delegate' = "rejected" /\ state' = "done"
  /\ UNCHANGED <<deployment, readerVars, call, registryVars>>

PrefixFails ==
  /\ delegate = "prefix"
  /\ IsLost
  /\ delegate' = "rejected"
  /\ UNCHANGED <<deployment, state, readerVars, call, registryVars>>

(* loadTDFStream: the tail of the file, a header for each record, and the    *)
(* manifest, one after the other.                                            *)
ReadOverview ==
  LET reads == overview.reads
      headers == Cardinality(Archive!getCDBuffers(file))
      throws == \/ reads = 0 /\ ~Archive!DirectoryParses(file)
                \/ reads = headers /\ ~Archive!ManifestFits(file)
  IN /\ delegate = "reader"
     /\ overview.at = "pending"
     /\ Arrives
     /\ overview' =
          IF throws THEN [overview EXCEPT !.at = "failed"]
          ELSE IF reads <= headers THEN [overview EXCEPT !.reads = reads + 1]
          ELSE [at |-> "loaded", reads |-> reads + 1, entries |-> Archive!Entries(file)]
     /\ UNCHANGED <<deployment, wrapperVars, requiredObligations, completed, call, registryVars>>

OverviewReadFails ==
  /\ delegate = "reader"
  /\ overview.at = "pending"
  /\ IsLost
  /\ overview' = [overview EXCEPT !.at = "sourceFailed"]
  /\ UNCHANGED <<deployment, wrapperVars, requiredObligations, completed, call, registryVars>>

-----------------------------------------------------------------------------
(* A call of the wrapper.  close does nothing on a reader that is done, and  *)
(* else waits, like every other call, for the delegate (mutant: while the    *)
(* type is not known there is nothing to wait for).                          *)
ClosesWhileResolving(c) ==
  IF state \in {"done", "resolving"}
    THEN state' = "done" /\ call' = [call EXCEPT ![c] = [@ EXCEPT !.op = "close", !.at = "resolved"]]
    ELSE state' = "closing" /\ call' = [call EXCEPT ![c] = [@ EXCEPT !.op = "close", !.at = "delegate"]]
Closes(c) ==
  IF state = "done"
    THEN UNCHANGED state /\ call' = [call EXCEPT ![c] = [@ EXCEPT !.op = "close", !.at = "resolved"]]
    ELSE state' = "closing" /\ call' = [call EXCEPT ![c] = [@ EXCEPT !.op = "close", !.at = "delegate"]]

Made(c, op) ==
  /\ op \in deployment.ops
  /\ c <= deployment.calls
  /\ call[c].at = "idle"
  /\ \A b \in Calls : b < c => call[b].at # "idle"

Close(c) ==
  /\ Made(c, "close")
  /\ Closes(c)
  /\ UNCHANGED <<sourceVars, delegate, readerVars, registryVars>>

Request(c, op) ==
  /\ Made(c, op)
  /\ call' = [call EXCEPT ![c] = [op |-> op, at |-> "delegate", value |-> Nothing,
                                  since |-> Len(completed)]]
  /\ UNCHANGED <<sourceVars, wrapperVars, readerVars, registryVars>>

(* ZTDFReader.decrypt, up to its first await: without a list of servers and  *)
(* without a platform to ask for one it throws.                              *)
Decrypts(c) ==
  IF opts.allowedKASEndpoints = NoList /\ ~opts.ignoreAllowlist /\ ~opts.platformUrl
    THEN Rejects(c) ELSE Moves(c, "dpopKeys")

(* The delegate settles: the reader's own method runs up to its first await. *)
DelegateSettles(c) ==
  /\ call[c].at = "delegate"
  /\ delegate \in {"reader", "rejected"}
  /\ CASE delegate = "rejected" -> Rejects(c) /\ UNCHANGED state
       [] delegate = "reader" /\ call[c].op = "close" ->
            Resolves(c, Nothing) /\ state' = "done"
       [] delegate = "reader" /\ call[c].op = "manifest" ->
            Moves(c, "manifest") /\ UNCHANGED state
       [] delegate = "reader" /\ call[c].op = "obligations"
            /\ requiredObligations # Nothing ->
            Resolves(c, requiredObligations) /\ UNCHANGED state
       [] OTHER -> Decrypts(c) /\ UNCHANGED state
  /\ UNCHANGED <<sourceVars, delegate, readerVars, registryVars>>

(* manifest and attributes wait for the overview.                            *)
ReturnManifest(c) ==
  /\ call[c].at = "manifest"
  /\ overview.at # "pending"
  /\ IF overview.at = "loaded" THEN Resolves(c, Nothing) ELSE Rejects(c)
  /\ UNCHANGED <<sourceVars, wrapperVars, readerVars, registryVars>>

-----------------------------------------------------------------------------
(* decrypt, from one await to the next: the DPoP keys, the list of servers   *)
(* if the options have none, the overview, and decryptStreamFrom.            *)
ListIsGiven ==
  opts.ignoreAllowlist \/ opts.allowedKASEndpoints \notin {NoList, {}}

DpopKeysReady(c) ==
  /\ call[c].at = "dpopKeys"
  /\ IF ~ListIsGiven /\ opts.platformUrl
       THEN Moves(c, "servers") /\ StartListing(c) /\ UNCHANGED <<registry, removed>>
       ELSE Moves(c, "overview") /\ UNCHANGED registryVars
  /\ UNCHANGED <<sourceVars, wrapperVars, readerVars>>

DpopKeysFail(c) ==
  /\ call[c].at = "dpopKeys"
  /\ Rejects(c)
  /\ UNCHANGED <<sourceVars, wrapperVars, readerVars, registryVars>>

ServersListed(c) ==
  /\ call[c].at = "servers"
  /\ listing[c].at \in {"listed", "failed"}
  /\ IF listing[c].at = "listed" THEN Moves(c, "overview") ELSE Rejects(c)
  /\ UNCHANGED <<sourceVars, wrapperVars, readerVars, registryVars>>

(* Whether decryptStreamFrom is given a list, with every KAS of the file.    *)
Allowed(c) ==
  \/ opts.ignoreAllowlist
  \/ deployment.kases \subseteq
       (IF ListIsGiven THEN opts.allowedKASEndpoints ELSE listing[c].allServers)

OverviewReady(c) ==
  /\ call[c].at = "overview"
  /\ overview.at # "pending"
  /\ IF overview.at = "loaded" /\ (ListIsGiven \/ opts.platformUrl) /\ Allowed(c)
       THEN Moves(c, "key") ELSE Rejects(c)
  /\ UNCHANGED <<sourceVars, wrapperVars, readerVars, registryVars>>

KeyRefused(c) ==
  /\ call[c].at = "key"
  /\ Rejects(c)
  /\ UNCHANGED <<sourceVars, wrapperVars, readerVars, registryVars>>

(* decryptStreamFrom resolves: the obligations that came with the key are    *)
(* set (mutant: if there are none yet).  They are named by the call they     *)
(* came to.                                                                  *)
FirstObligations(c) == IF requiredObligations = Nothing THEN c ELSE requiredObligations
LatestObligations(c) == c
StreamReady(c) ==
  /\ call[c].at = "key"
  /\ requiredObligations' = LatestObligations(c)
  /\ completed' = Append(completed, c)
  /\ IF call[c].op = "decrypt" THEN Resolves(c, c) ELSE Moves(c, "decrypted")
  /\ UNCHANGED <<sourceVars, wrapperVars, overview, registryVars>>

(* obligations continues after its decrypt.                                  *)
ReturnObligations(c) ==
  /\ call[c].at = "decrypted"
  /\ Resolves(c, requiredObligations)
  /\ UNCHANGED <<sourceVars, wrapperVars, readerVars, registryVars>>

-----------------------------------------------------------------------------
RegistryStep(step) == step /\ UNCHANGED <<sourceVars, wrapperVars, readerVars, call>>
ServerListStep(c) ==
  RegistryStep(PageArrives(c) \/ PageFails(c, opts.authProvider))

(* The registry changes while it is read; at other times a change makes      *)
(* another registry to start from.                                           *)
RegistryChanges ==
  /\ deployment.changes
  /\ \E c \in Calls : listing[c].at \in {"rpc", "legacy"}
  /\ \E s \in Servers : RegistryStep(Register(s) \/ Deregister(s))

ResolveType == OpenSource \/ ReadPrefix \/ PrefixFails \/ FetchRemote
LoadOverview == OverviewReadFails \/ ReadOverview
Answer(c) == KeyRefused(c) \/ StreamReady(c)
CallStep(c) ==
  \/ DelegateSettles(c) \/ ReturnManifest(c)
  \/ DpopKeysReady(c) \/ DpopKeysFail(c) \/ ServersListed(c) \/ OverviewReady(c)
  \/ Answer(c) \/ ReturnObligations(c)

LibraryStep ==
  ResolveType \/ LoadOverview \/ \E c \in Calls : CallStep(c) \/ ServerListStep(c)

Next ==
  \/ LibraryStep
  \/ \E c \in Calls : Close(c)
  \/ \E c \in Calls, op \in Operations \ {"close"} : Request(c, op)
  \/ RegistryChanges

Spec == Init /\ [][Next]_vars

(* Reads of the source, requests and answers end, one way or the other, and  *)
(* callbacks run; the application need not call anything.                    *)
FairSpec == Spec /\ WF_vars(LibraryStep)

-----------------------------------------------------------------------------
(* A reader that was closed stays closed: whoever closes it while its type   *)
(* is being resolved, or closes it twice, finds the state done, and no       *)
(* continuation of another call takes that back.                             *)
ClosedIsFinal ==
  \A c \in Calls : call[c].op = "close" /\ call[c].at = "resolved" => state = "done"

(* obligations returns those of a decryption of this reader that is complete,*)
(* and not of one before the last that was complete when it was called, for  *)
(* calls that share decryptions or start their own in any order.             *)
ObligationsAreCurrent ==
  \A c \in Calls : call[c].op = "obligations" /\ call[c].at = "resolved" =>
    \E k \in DOMAIN completed : k >= call[c].since /\ completed[k] = call[c].value

(* The overview tells where the payload and the manifest are, for archives   *)
(* of other writers as well: with or without zip64, with extra fields of     *)
(* other kinds, here or in the local headers.  It fails only when the source *)
(* does, or the archive is beyond what the reader reads of it.               *)
OverviewIsTrue ==
  Archive!IsArchive(file) =>
    /\ overview.at = "loaded" =>
         \A e \in overview.entries : e = Archive!TrueEntry(file, e.name)
    /\ overview.at = "failed" => ~Archive!Readable(file)

(* Every call ends.                                                          *)
EveryCallEnds ==
  <>[](\A c \in Calls : call[c].at \in {"idle", "resolved", "rejected"})
=============================================================================
