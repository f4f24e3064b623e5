---------------------------- MODULE ReaderProofs ----------------------------
(***************************************************************************)
(* For every set of deployments, any number of calls of the reader, and any  *)
(* registry and size of its pages: a reader that is closed stays closed,     *)
(* obligations are those of a decryption not too old, the list of servers is *)
(* complete, and the overview is true of the archive.  The first two come    *)
(* from what the continuations of the calls do to the state and to the       *)
(* obligations they share; the third from where a server can be while pages  *)
(* are read by offset; the last from what a record says, with or without the *)
(* values of its zip64 information.                                          *)
(***************************************************************************)
EXTENDS Reader, FiniteSetTheorems, WellFoundedInduction, TLAPS

-----------------------------------------------------------------------------
(* The calls.                                                                *)
CallStates == {"idle", "delegate", "manifest", "dpopKeys", "servers", "overview", "key",
               "decrypted", "resolved", "rejected"}
CallRecords ==
  [op : Operations \cup {"none"}, at : CallStates, value : Nat, since : Nat]

CallTypes ==
  /\ call \in [Calls -> CallRecords]
  /\ completed \in Seq(Calls)
  /\ requiredObligations \in Nat

(* Where a call can be, by its operation.                                    *)
CallPlaces ==
  \A c \in Calls :
    /\ call[c].op = "close" => call[c].at \in {"delegate", "resolved", "rejected"}
    /\ call[c].at = "manifest" => call[c].op = "manifest"

(* Once the state is done nothing is left of resolveType to set it again.    *)
DoneIsResolved == state = "done" => delegate \in {"reader", "rejected"}

(* The obligations are those of the last complete decryption.                *)
LastObligations ==
  /\ completed = <<>> => requiredObligations = Nothing
  /\ completed # <<>> => requiredObligations = completed[Len(completed)]
SinceThen ==
  \A c \in Calls :
    /\ call[c].since <= Len(completed)
    /\ call[c].at = "decrypted" => completed # <<>>

CallInv ==
  /\ CallTypes /\ CallPlaces
  /\ DoneIsResolved /\ ClosedIsFinal
  /\ LastObligations /\ SinceThen /\ ObligationsAreCurrent

LEMMA InitCalls == Init => CallInv
  BY CallsAssumption
  DEF Init, CallInv, CallTypes, CallPlaces, DoneIsResolved, ClosedIsFinal, LastObligations,
      SinceThen, ObligationsAreCurrent, CallRecords, CallStates, Operations, NotCalled, Nothing

(* A step that leaves the calls and what they share alone.                   *)
LEMMA Elsewhere ==
  ASSUME CallInv, UNCHANGED <<state, call, completed, requiredObligations>>,
         delegate \in {"reader", "rejected"} => delegate' \in {"reader", "rejected"}
  PROVE  CallInv'
  BY DEF CallInv, CallTypes, CallPlaces, DoneIsResolved, ClosedIsFinal, LastObligations,
         SinceThen, ObligationsAreCurrent

(* A call that goes on to wait for something else, or rejects.               *)
LEMMA MovesOn ==
  ASSUME CallInv, NEW c \in Calls, NEW at \in CallStates \ {"manifest", "decrypted", "resolved"},
         call[c].op = "close" => at \in {"delegate", "rejected"},
         Moves(c, at), UNCHANGED <<wrapperVars, completed, requiredObligations>>
  PROVE  CallInv'
  BY DEF CallInv, CallTypes, CallPlaces, DoneIsResolved, ClosedIsFinal, LastObligations,
         SinceThen, ObligationsAreCurrent, CallRecords, Moves, wrapperVars

(* What becomes of a call that is closed, or that resolves.                  *)
Becomes(c, op, at, value) ==
  /\ call' \in [Calls -> CallRecords]
  /\ call'[c].op = op /\ call'[c].at = at /\ call'[c].value = value
  /\ call'[c].since = call[c].since
  /\ \A b \in Calls \ {c} : call'[b] = call[b]

LEMMA ResolvedCall ==
  ASSUME CallInv, NEW c \in Calls, NEW value \in Nat, Resolves(c, value)
  PROVE  Becomes(c, call[c].op, "resolved", value)
<1>1. call \in [Calls -> CallRecords] /\ call[c] \in CallRecords
  BY DEF CallInv, CallTypes
<1> QED
  BY <1>1 DEF Resolves, Becomes, CallRecords, CallStates

LEMMA ClosedCall ==
  ASSUME CallInv, NEW c \in Calls, NEW at \in {"delegate", "resolved"},
         call' = [call EXCEPT ![c] = [@ EXCEPT !.op = "close", !.at = at]]
  PROVE  Becomes(c, "close", at, call[c].value)
<1>1. call \in [Calls -> CallRecords] /\ call[c] \in CallRecords
  BY DEF CallInv, CallTypes
<1> QED
  BY <1>1 DEF Becomes, CallRecords, CallStates, Operations

(* A call that becomes something else keeps the invariant, if what it has    *)
(* become is allowed.                                                        *)
LEMMA BecomesKeeps ==
  ASSUME CallInv, NEW c \in Calls, NEW op, NEW at, NEW value, Becomes(c, op, at, value),
         UNCHANGED <<delegate, completed, requiredObligations>>,
         state' = "done" => state = "done" \/ delegate = "reader",
         state = "done" => state' = "done",
         at \in {"delegate", "rejected", "resolved"},
         at = "resolved" /\ op = "close" => state' = "done",
         at = "resolved" /\ op = "obligations" =>
           completed # <<>> /\ value = requiredObligations
  PROVE  CallInv'
<1>1. CallTypes' /\ CallPlaces' /\ DoneIsResolved' /\ LastObligations' /\ SinceThen'
  BY DEF CallInv, CallTypes, CallPlaces, DoneIsResolved, LastObligations, SinceThen, Becomes
<1>2. ClosedIsFinal'
  BY DEF CallInv, ClosedIsFinal, Becomes
<1>3. completed # <<>> =>
        Len(completed) \in DOMAIN completed /\ call[c].since <= Len(completed)
  BY DEF CallInv, CallTypes, SinceThen
<1>4. ObligationsAreCurrent'
  BY <1>3 DEF CallInv, ObligationsAreCurrent, LastObligations, Becomes
<1> QED
  BY <1>1, <1>2, <1>4 DEF CallInv

(* The wrapper's own steps.                                                  *)
LEMMA WrapperKeeps ==
  ASSUME CallInv, ResolveType \/ LoadOverview
  PROVE  CallInv'
<1>1. CASE OpenSource
  BY <1>1, Elsewhere DEF OpenSource, readerVars
<1>2. CASE ReadPrefix
  BY <1>2 DEF ReadPrefix, readerVars, CallInv, CallTypes, CallPlaces, DoneIsResolved,
              ClosedIsFinal, LastObligations, SinceThen, ObligationsAreCurrent
<1>3. CASE PrefixFails
  BY <1>3, Elsewhere DEF PrefixFails, readerVars
<1>4. CASE FetchRemote
  BY <1>4, Elsewhere DEF FetchRemote, readerVars, wrapperVars
<1>5. CASE ReadOverview
  BY <1>5, Elsewhere DEF ReadOverview, wrapperVars
<1>6. CASE OverviewReadFails
  BY <1>6, Elsewhere DEF OverviewReadFails, wrapperVars
<1> QED
  BY <1>1, <1>2, <1>3, <1>4, <1>5, <1>6 DEF ResolveType, LoadOverview

-----------------------------------------------------------------------------
(* The application makes a call.                                             *)
LEMMA MadeKeeps ==
  ASSUME CallInv, NEW c \in Calls,
         Close(c) \/ \E op \in Operations \ {"close"} : Request(c, op)
  PROVE  CallInv'
<1>1. CASE Close(c)
  <2>1. UNCHANGED <<delegate, completed, requiredObligations>>
    BY <1>1 DEF Close, readerVars
  <2>2. CASE /\ state = "done" /\ UNCHANGED state
             /\ call' = [call EXCEPT ![c] = [@ EXCEPT !.op = "close", !.at = "resolved"]]
    <3>1. Becomes(c, "close", "resolved", call[c].value)
      BY <2>2, ClosedCall
    <3> QED
      BY <2>1, <2>2, <3>1, BecomesKeeps
  <2>3. CASE /\ state # "done" /\ state' = "closing"
             /\ call' = [call EXCEPT ![c] = [@ EXCEPT !.op = "close", !.at = "delegate"]]
    <3>1. Becomes(c, "close", "delegate", call[c].value)
      BY <2>3, ClosedCall
    <3> QED
      BY <2>1, <2>3, <3>1, BecomesKeeps
  <2> QED
    BY <1>1, <2>2, <2>3 DEF Close, Closes
<1>2. ASSUME NEW op \in Operations \ {"close"}, Request(c, op) PROVE CallInv'
  BY <1>2
  DEF Request, Made, readerVars, wrapperVars, CallInv, CallTypes, CallPlaces, DoneIsResolved, ClosedIsFinal,
      LastObligations, SinceThen, ObligationsAreCurrent, CallRecords, CallStates,
      Operations, Nothing
<1> QED
  BY <1>1, <1>2

(* The delegate settles, and the reader's own method begins.                 *)
LEMMA DelegateKeeps ==
  ASSUME CallInv, NEW c \in Calls, DelegateSettles(c)
  PROVE  CallInv'
<1>1. call[c].at = "delegate" /\ UNCHANGED <<delegate, completed, requiredObligations>>
  BY DEF DelegateSettles, readerVars
<1>2. CASE Rejects(c) /\ UNCHANGED state
  BY <1>1, <1>2, MovesOn DEF Rejects, CallStates, wrapperVars
<1>3. CASE delegate = "reader" /\ call[c].op = "close" /\ Resolves(c, Nothing) /\ state' = "done"
  <2>1. Becomes(c, call[c].op, "resolved", Nothing)
    BY <1>3, ResolvedCall DEF Nothing
  <2> QED
    BY <1>1, <1>3, <2>1, BecomesKeeps
<1>4. CASE call[c].op = "manifest" /\ Moves(c, "manifest") /\ UNCHANGED state
  BY <1>1, <1>4 DEF Moves, CallInv, CallTypes, CallPlaces, DoneIsResolved, ClosedIsFinal,
      LastObligations, SinceThen, ObligationsAreCurrent, CallRecords, CallStates,
      Operations, Nothing
<1>5. CASE /\ call[c].op = "obligations" /\ requiredObligations # Nothing
           /\ Resolves(c, requiredObligations) /\ UNCHANGED state
  <2>1. Becomes(c, call[c].op, "resolved", requiredObligations)
    BY <1>5, ResolvedCall DEF CallInv, CallTypes
  <2>2. completed # <<>>
    BY <1>5 DEF CallInv, LastObligations
  <2> QED
    BY <1>1, <1>5, <2>1, <2>2, BecomesKeeps
<1>6. CASE call[c].op # "close" /\ Moves(c, "dpopKeys") /\ UNCHANGED state
  BY <1>1, <1>6, MovesOn DEF CallStates, wrapperVars
<1> QED
  BY <1>1, <1>2, <1>3, <1>4, <1>5, <1>6 DEF DelegateSettles, Decrypts

(* A decryption is complete: its obligations are now the last.               *)
LEMMA StreamReadyKeeps ==
  ASSUME CallInv, NEW c \in Calls, StreamReady(c)
  PROVE  CallInv'
<1>1. /\ completed \in Seq(Calls) /\ call \in [Calls -> CallRecords]
      /\ completed' = Append(completed, c) /\ requiredObligations' = c
      /\ UNCHANGED <<state, delegate>>
  BY DEF StreamReady, LatestObligations, CallInv, CallTypes, wrapperVars
<1>2. /\ completed' \in Seq(Calls) /\ Len(completed') = Len(completed) + 1
      /\ completed'[Len(completed')] = c
      /\ \A k \in DOMAIN completed : k \in DOMAIN completed' /\ completed'[k] = completed[k]
  BY <1>1
<1>3. /\ call' \in [Calls -> CallRecords]
      /\ \A b \in Calls : call'[b].since = call[b].since /\ call'[b].op = call[b].op
      /\ \A b \in Calls \ {c} : call'[b] = call[b]
      /\ \/ call[c].op = "decrypt" /\ call'[c].at = "resolved"
         \/ call[c].op # "decrypt" /\ call'[c].at = "decrypted"
  <2>1. CASE call[c].op = "decrypt" /\ Resolves(c, c)
    BY <2>1, ResolvedCall, CallsAssumption DEF Becomes
  <2>2. CASE call[c].op # "decrypt" /\ Moves(c, "decrypted")
    BY <1>1, <2>2 DEF Moves, CallRecords, CallStates
  <2> QED
    BY <2>1, <2>2 DEF StreamReady
<1>4. call[c].op # "close"
  BY DEF StreamReady, CallInv, CallPlaces
<1>5. CallTypes' /\ LastObligations' /\ DoneIsResolved'
  BY <1>1, <1>2, <1>3, CallsAssumption
  DEF CallInv, CallTypes, LastObligations, DoneIsResolved
<1>6. CallPlaces' /\ ClosedIsFinal'
  BY <1>1, <1>3, <1>4 DEF CallInv, CallPlaces, ClosedIsFinal
<1>7. SinceThen'
  <2>1. completed' # <<>> /\ Len(completed) \in Nat
    BY <1>1
  <2>2. \A b \in Calls : call[b].since \in Nat /\ call[b].since <= Len(completed)
    BY <1>1 DEF CallInv, SinceThen, CallRecords
  <2> QED
    BY <1>2, <1>3, <2>1, <2>2 DEF SinceThen
<1>8. ObligationsAreCurrent'
  BY <1>2, <1>3 DEF CallInv, ObligationsAreCurrent
<1> QED
  BY <1>5, <1>6, <1>7, <1>8 DEF CallInv

(* Every other continuation of a call.                                       *)
LEMMA ContinuationKeeps ==
  ASSUME CallInv, NEW c \in Calls, CallStep(c)
  PROVE  CallInv'
<1>1. CASE DelegateSettles(c)
  BY <1>1, DelegateKeeps
<1>2. CASE ReturnManifest(c)
  <2>1. call[c].op = "manifest"
    BY <1>2 DEF ReturnManifest, CallInv, CallPlaces
  <2>2. UNCHANGED <<wrapperVars, completed, requiredObligations>>
    BY <1>2 DEF ReturnManifest, readerVars
  <2>3. CASE Resolves(c, Nothing)
    <3>1. Becomes(c, call[c].op, "resolved", Nothing)
      BY <2>3, ResolvedCall DEF Nothing
    <3> QED
      BY <2>1, <2>2, <3>1, BecomesKeeps DEF wrapperVars
  <2>4. CASE Rejects(c)
    BY <2>1, <2>2, <2>4, MovesOn DEF Rejects, CallStates
  <2> QED
    BY <1>2, <2>3, <2>4 DEF ReturnManifest
<1>3. CASE DpopKeysReady(c) \/ DpopKeysFail(c) \/ ServersListed(c) \/ OverviewReady(c)
           \/ KeyRefused(c)
  <2>1. call[c].op # "close"
    BY <1>3 DEF DpopKeysReady, DpopKeysFail, ServersListed, OverviewReady, KeyRefused,
                CallInv, CallPlaces
  <2>2. UNCHANGED <<wrapperVars, completed, requiredObligations>>
    BY <1>3 DEF DpopKeysReady, DpopKeysFail, ServersListed, OverviewReady, KeyRefused,
                readerVars
  <2>3. \E at \in {"servers", "overview", "key", "rejected"} : Moves(c, at)
    BY <1>3 DEF DpopKeysReady, DpopKeysFail, ServersListed, OverviewReady, KeyRefused, Rejects
  <2> QED
    BY <2>1, <2>2, <2>3, MovesOn DEF CallStates
<1>4. CASE StreamReady(c)
  BY <1>4, StreamReadyKeeps
<1>5. CASE ReturnObligations(c)
  <2>1. /\ completed # <<>> /\ call[c].op # "close"
        /\ UNCHANGED <<wrapperVars, completed, requiredObligations>>
    BY <1>5 DEF ReturnObligations, readerVars, CallInv, CallPlaces, SinceThen
  <2>2. Becomes(c, call[c].op, "resolved", requiredObligations)
    BY <1>5, ResolvedCall DEF ReturnObligations, CallInv, CallTypes
  <2> QED
    BY <2>1, <2>2, BecomesKeeps DEF wrapperVars
<1> QED
  BY <1>1, <1>2, <1>3, <1>4, <1>5 DEF CallStep, Answer

LEMMA NextCalls == CallInv /\ [Next]_vars => CallInv'
<1> SUFFICES ASSUME CallInv, [Next]_vars PROVE CallInv'
  OBVIOUS
<1>1. CASE ResolveType \/ LoadOverview
  BY <1>1, WrapperKeeps
<1>2. ASSUME NEW c \in Calls, CallStep(c) PROVE CallInv'
  BY <1>2, ContinuationKeeps
<1>3. ASSUME NEW c \in Calls, ServerListStep(c) PROVE CallInv'
  BY <1>3, Elsewhere DEF ServerListStep, RegistryStep, wrapperVars, readerVars
<1>4. ASSUME NEW c \in Calls, Close(c) \/ \E op \in Operations \ {"close"} : Request(c, op)
      PROVE  CallInv'
  BY <1>4, MadeKeeps
<1>5. CASE RegistryChanges
  BY <1>5, Elsewhere DEF RegistryChanges, RegistryStep, wrapperVars, readerVars
<1>6. CASE UNCHANGED vars
  BY <1>6, Elsewhere DEF vars, wrapperVars, readerVars
<1> QED
  BY <1>1, <1>2, <1>3, <1>4, <1>5, <1>6 DEF Next, LibraryStep

THEOREM CallInvariance == Spec => []CallInv
  BY InitCalls, NextCalls, PTL DEF Spec

(* A reader that is closed stays closed.                                     *)
THEOREM ClosedStaysClosed == Spec => []ClosedIsFinal
<1>1. CallInv => ClosedIsFinal
  BY DEF CallInv
<1> QED
  BY <1>1, CallInvariance, PTL

(* obligations returns those of a decryption that was not superseded when it *)
(* was called.                                                               *)
THEOREM CurrentObligations == Spec => []ObligationsAreCurrent
<1>1. CallInv => ObligationsAreCurrent
  BY DEF CallInv
<1> QED
  BY <1>1, CallInvariance, PTL

-----------------------------------------------------------------------------
(* The list of servers.  While pages are read, a server that has been        *)
(* registered all the time is in the list already, or at a place of the      *)
(* registry that has not been read: a server that is registered moves others *)
(* to later places only, and a removal empties the promise.                  *)
ListingRecords ==
  [at : {"none", "rpc", "legacy", "listed", "failed"}, nextOffset : Nat,
   allServers : SUBSET (Servers \cup {platformKas}), since : SUBSET Servers]

RegistryTypes ==
  /\ registry \in Seq(Servers)
  /\ listing \in [Clients -> ListingRecords]

Ahead(s, offset) == \E i \in DOMAIN registry : i > offset /\ registry[i] = s

NoneSkipped ==
  \A c \in Clients : listing[c].at \in {"rpc", "legacy"} =>
    \A s \in listing[c].since :
      s \in listing[c].allServers \/ Ahead(s, listing[c].nextOffset)

RegistryInv == RegistryTypes /\ NoneSkipped /\ AllowListComplete

LEMMA InitRegistry == Init => RegistryInv
  BY DeploymentsAssumption
  DEF Init, RegistryInit, NotListing, RegistryInv, RegistryTypes, ListingRecords, NoneSkipped,
      AllowListComplete

(* A listing that begins has everything ahead of it.                         *)
LEMMA BeginKeeps ==
  ASSUME RegistryInv, NEW c \in Clients, NEW protocol \in {"rpc", "legacy"},
         listing' = [listing EXCEPT ![c] = Begins(protocol)], UNCHANGED registry
  PROVE  RegistryInv'
<1>1. ToSet(registry) \subseteq Servers /\ \A s \in ToSet(registry) : Ahead(s, 0)
  BY DEF RegistryInv, RegistryTypes, ToSet, Ahead
<1>2. /\ Begins(protocol) \in ListingRecords
      /\ Begins(protocol).at = protocol /\ Begins(protocol).nextOffset = 0
      /\ Begins(protocol).since = ToSet(registry)
  BY <1>1 DEF Begins, NotListing, ListingRecords
<1>3. /\ listing' \in [Clients -> ListingRecords]
      /\ listing'[c] = Begins(protocol)
      /\ \A b \in Clients \ {c} : listing'[b] = listing[b]
  BY <1>2 DEF RegistryInv, RegistryTypes
<1>4. NoneSkipped' /\ AllowListComplete'
  BY <1>1, <1>2, <1>3 DEF RegistryInv, NoneSkipped, AllowListComplete, Ahead
<1> QED
  BY <1>3, <1>4 DEF RegistryInv, RegistryTypes

(* A page holds what is between its offset and the next.                     *)
LEMMA PageHolds ==
  ASSUME RegistryTypes, NEW offset \in Nat, NEW s, Ahead(s, offset)
  PROVE  /\ Page(offset).nextOffset \in Nat
         /\ \/ s \in Page(offset).servers
            \/ Page(offset).nextOffset > 0 /\ Ahead(s, Page(offset).nextOffset)
<1> DEFINE end == IF offset + PageSize < Len(registry) THEN offset + PageSize ELSE Len(registry)
<1>1. registry \in Seq(Servers) /\ Len(registry) \in Nat /\ PageSize \in Nat \ {0} /\ end \in Nat
  BY RegistryAssumption DEF RegistryTypes
<1>2. PICK i \in DOMAIN registry : i > offset /\ registry[i] = s
  BY DEF Ahead
<1>3. Page(offset).nextOffset = IF end < Len(registry) THEN end ELSE 0
  BY DEF Page
<1>4. CASE i <= end
  <2>1. /\ i - offset \in DOMAIN SubSeq(registry, offset + 1, end)
        /\ SubSeq(registry, offset + 1, end)[i - offset] = s
    BY <1>1, <1>2, <1>4
  <2>2. Page(offset).servers = ToSet(SubSeq(registry, offset + 1, end))
    BY DEF Page
  <2> QED
    BY <1>1, <1>3, <2>1, <2>2 DEF ToSet
<1>5. CASE i > end
  <2>1. end = offset + PageSize /\ end < Len(registry) /\ end > 0
    BY <1>1, <1>2, <1>5
  <2> QED
    BY <1>1, <1>2, <1>3, <1>5, <2>1 DEF Ahead
<1> QED
  BY <1>1, <1>2, <1>4, <1>5

(* What a page is made of.                                                   *)
LEMMA PageTypes ==
  ASSUME RegistryTypes, NEW offset \in Nat
  PROVE  Page(offset).servers \subseteq Servers /\ Page(offset).nextOffset \in Nat
<1> DEFINE end == IF offset + PageSize < Len(registry) THEN offset + PageSize ELSE Len(registry)
           part == SubSeq(registry, offset + 1, end)
<1>1. registry \in Seq(Servers) /\ Len(registry) \in Nat /\ PageSize \in Nat \ {0}
  BY RegistryAssumption DEF RegistryTypes
<1>2. end \in Nat /\ end <= Len(registry)
  BY <1>1
<1>3. Page(offset).servers = ToSet(part)
      /\ Page(offset).nextOffset = (IF end < Len(registry) THEN end ELSE 0)
  BY DEF Page
<1>4. ASSUME NEW i \in DOMAIN part PROVE part[i] \in Servers
  <2>1. i \in Nat /\ i > 0 /\ offset + i <= end /\ part[i] = registry[offset + i]
    BY <1>1, <1>2, <1>4
  <2>2. offset + i \in 1 .. Len(registry)
    BY <1>1, <1>2, <2>1
  <2> HIDE DEF part, end
  <2> QED
    BY <1>1, <2>1, <2>2
<1> HIDE DEF part
<1>5. ToSet(part) \subseteq Servers
  BY <1>4 DEF ToSet
<1> QED
  BY <1>2, <1>3, <1>5

LEMMA PageKeeps ==
  ASSUME RegistryInv, NEW c \in Clients, PageArrives(c)
  PROVE  RegistryInv'
<1> DEFINE page == Page(listing[c].nextOffset)
           all == listing[c].allServers \cup page.servers
<1>1. /\ listing[c] \in ListingRecords /\ listing[c].at \in {"rpc", "legacy"}
      /\ registry' = registry
  BY DEF RegistryInv, RegistryTypes, PageArrives
<1>2. page.servers \subseteq Servers /\ page.nextOffset \in Nat
  <2>1. listing[c].nextOffset \in Nat /\ RegistryTypes
    BY <1>1 DEF ListingRecords, RegistryInv
  <2> QED
    BY <2>1, PageTypes
<1>3. ASSUME NEW s \in listing[c].since
      PROVE  s \in all \/ (page.nextOffset > 0 /\ Ahead(s, page.nextOffset))
  <2>2. s \in listing[c].allServers \/ Ahead(s, listing[c].nextOffset)
    BY <1>1 DEF RegistryInv, NoneSkipped
  <2>3. CASE Ahead(s, listing[c].nextOffset)
    <3>1. listing[c].nextOffset \in Nat /\ RegistryTypes
      BY <1>1 DEF RegistryInv, ListingRecords
    <3>2. s \in page.servers \/ (page.nextOffset > 0 /\ Ahead(s, page.nextOffset))
      BY <2>3, <3>1, PageHolds
    <3> QED
      BY <3>2
  <2> QED
    BY <2>2, <2>3
<1>4. /\ listing' \in [Clients -> ListingRecords]
      /\ \A b \in Clients \ {c} : listing'[b] = listing[b]
      /\ listing'[c].since = listing[c].since
      /\ listing'[c].nextOffset = page.nextOffset
      /\ IF page.nextOffset > 0
           THEN listing'[c].at = listing[c].at /\ listing'[c].allServers = all
           ELSE listing'[c].at = "listed" /\ listing'[c].allServers = all \cup {platformKas}
  BY <1>1, <1>2
  DEF PageArrives, MorePages, Pushed, RegistryInv, RegistryTypes, ListingRecords
<1>5. NoneSkipped' /\ AllowListComplete'
  BY <1>1, <1>2, <1>3, <1>4 DEF RegistryInv, NoneSkipped, AllowListComplete, Ahead
<1> QED
  BY <1>1, <1>4, <1>5 DEF RegistryInv, RegistryTypes

(* A request that fails begins again, or ends the listing.                   *)
LEMMA FailureKeeps ==
  ASSUME RegistryInv, NEW c \in Clients, NEW hasAuthProvider, PageFails(c, hasAuthProvider)
  PROVE  RegistryInv'
<1>1. CASE listing' = [listing EXCEPT ![c] = Begins("legacy")]
  BY <1>1, BeginKeeps DEF PageFails
<1>2. CASE listing' = [listing EXCEPT ![c] = [@ EXCEPT !.at = "failed"]]
  BY <1>2
  DEF PageFails, RegistryInv, RegistryTypes, ListingRecords, NoneSkipped, AllowListComplete, Ahead
<1> QED
  BY <1>1, <1>2 DEF PageFails

(* What is inserted into a sequence moves the rest back by one.              *)
LEMMA InsertShifts ==
  ASSUME NEW S, NEW seq \in Seq(S), NEW s \in S, NEW i \in 1 .. Len(seq) + 1
  PROVE  /\ InsertAt(seq, i, s) \in Seq(S)
         /\ Len(InsertAt(seq, i, s)) = Len(seq) + 1
         /\ \A j \in 1 .. Len(seq) :
              InsertAt(seq, i, s)[IF j < i THEN j ELSE j + 1] = seq[j]
<1> DEFINE before == SubSeq(seq, 1, i - 1)
           after == SubSeq(seq, i, Len(seq))
           front == before \o <<s>>
<1>1. Len(seq) \in Nat /\ i \in Nat
  OBVIOUS
<1>2. before \in Seq(S) /\ Len(before) = i - 1 /\ \A j \in 1 .. i - 1 : before[j] = seq[j]
  BY <1>1
<1>3. after \in Seq(S) /\ Len(after) = Len(seq) + 1 - i
  BY <1>1
<1>4. \A j \in 1 .. Len(after) : after[j] = seq[i + j - 1]
  BY <1>1, <1>3
<1> HIDE DEF before, after
<1>5. <<s>> \in Seq(S) /\ Len(<<s>>) = 1
  OBVIOUS
<1>6. front \in Seq(S) /\ Len(front) = i /\ \A j \in 1 .. i - 1 : front[j] = seq[j]
  BY <1>1, <1>2, <1>5
<1>7. InsertAt(seq, i, s) = front \o after
  BY DEF InsertAt, before, after
<1> HIDE DEF front
<1>8. /\ front \o after \in Seq(S) /\ Len(front \o after) = Len(front) + Len(after)
      /\ \A j \in 1 .. Len(front) : (front \o after)[j] = front[j]
  BY <1>3, <1>6
<1>9. \A j \in 1 .. Len(after) : (front \o after)[Len(front) + j] = after[j]
  BY <1>3, <1>6
<1>10. Len(front \o after) = Len(seq) + 1
  BY <1>1, <1>3, <1>6, <1>8
<1>11. ASSUME NEW j \in 1 .. Len(seq), j < i PROVE (front \o after)[j] = seq[j]
  BY <1>1, <1>6, <1>8, <1>11
<1>12. ASSUME NEW j \in 1 .. Len(seq), ~(j < i) PROVE (front \o after)[j + 1] = seq[j]
  <2>1. PICK k \in 1 .. Len(after) : j = i + k - 1
    <3>1. j + 1 - i \in 1 .. Len(after) /\ j = i + (j + 1 - i) - 1
      BY <1>1, <1>3, <1>12
    <3> QED
      BY <3>1
  <2>2. j + 1 = Len(front) + k
    BY <1>1, <1>6, <2>1
  <2> QED
    BY <1>4, <1>9, <2>1, <2>2
<1> QED
  BY <1>7, <1>8, <1>10, <1>11, <1>12

(* What is inserted leaves what is ahead of any offset ahead of it.          *)
LEMMA RegisterKeeps ==
  ASSUME RegistryInv, NEW s \in Servers, Register(s)
  PROVE  RegistryInv'
<1>1. PICK i \in 1 .. Len(registry) + 1 : registry' = InsertAt(registry, i, s)
  BY DEF Register
<1>2. registry \in Seq(Servers) /\ Len(registry) \in Nat /\ listing' = listing
  BY DEF Register, RegistryInv, RegistryTypes
<1>3. /\ registry' \in Seq(Servers)
      /\ Len(registry') = Len(registry) + 1
      /\ \A j \in 1 .. Len(registry) :
           registry'[IF j < i THEN j ELSE j + 1] = registry[j]
  BY <1>1, <1>2, InsertShifts
<1>4. ASSUME NEW t, NEW offset \in Nat, Ahead(t, offset) PROVE Ahead(t, offset)'
  <2>1. PICK j \in 1 .. Len(registry) : j > offset /\ registry[j] = t
    BY <1>2, <1>4 DEF Ahead
  <2> DEFINE k == IF j < i THEN j ELSE j + 1
  <2>2. k \in 1 .. Len(registry) + 1 /\ k > offset
    BY <1>2, <2>1
  <2>3. registry'[k] = t
    BY <1>3, <2>1
  <2> HIDE DEF k
  <2>4. k \in DOMAIN registry'
    BY <1>3, <2>2
  <2> QED
    BY <2>2, <2>3, <2>4 DEF Ahead
<1>5. NoneSkipped' /\ AllowListComplete'
  BY <1>2, <1>4
  DEF RegistryInv, RegistryTypes, ListingRecords, NoneSkipped, AllowListComplete
<1> QED
  BY <1>2, <1>3, <1>5 DEF RegistryInv, RegistryTypes

(* After a removal nothing is promised to the listings that run.             *)
LEMMA DeregisterKeeps ==
  ASSUME RegistryInv, NEW s \in Servers, Deregister(s)
  PROVE  RegistryInv'
<1>1. PICK i \in DOMAIN registry : registry' = RemoveAt(registry, i)
  BY DEF Deregister
<1>2. registry' \in Seq(Servers)
  BY <1>1 DEF RemoveAt, RegistryInv, RegistryTypes
<1>3. /\ listing' \in [Clients -> ListingRecords]
      /\ \A c \in Clients : /\ listing'[c].at = listing[c].at /\ listing'[c].since = {}
                            /\ listing'[c].allServers = listing[c].allServers
  BY DEF Deregister, RegistryInv, RegistryTypes, ListingRecords
<1> QED
  BY <1>2, <1>3 DEF RegistryInv, RegistryTypes, NoneSkipped, AllowListComplete

LEMMA NextRegistry == RegistryInv /\ [Next]_vars => RegistryInv'
<1> SUFFICES ASSUME RegistryInv, [Next]_vars PROVE RegistryInv'
  OBVIOUS
<1>1. CASE UNCHANGED registryVars
  BY <1>1
  DEF registryVars, RegistryInv, RegistryTypes, NoneSkipped, AllowListComplete, Ahead
<1>2. CASE ResolveType \/ LoadOverview
  BY <1>1, <1>2 DEF ResolveType, LoadOverview, OpenSource, ReadPrefix, PrefixFails, FetchRemote,
                    ReadOverview, OverviewReadFails
<1>3. ASSUME NEW c \in Calls, CallStep(c) PROVE RegistryInv'
  <2>1. CASE DpopKeysReady(c)
    BY <1>1, <2>1, BeginKeeps, CallsAssumption DEF DpopKeysReady, StartListing
  <2>2. CASE ~DpopKeysReady(c)
    BY <1>1, <1>3, <2>2
    DEF CallStep, Answer, DelegateSettles, ReturnManifest, DpopKeysFail, ServersListed,
        OverviewReady, KeyRefused, StreamReady, ReturnObligations
  <2> QED
    BY <2>1, <2>2
<1>4. ASSUME NEW c \in Calls, ServerListStep(c) PROVE RegistryInv'
  BY <1>4, PageKeeps, FailureKeeps, CallsAssumption DEF ServerListStep, RegistryStep
<1>5. ASSUME NEW c \in Calls, Close(c) \/ \E op \in Operations \ {"close"} : Request(c, op)
      PROVE  RegistryInv'
  BY <1>1, <1>5 DEF Close, Request
<1>6. CASE RegistryChanges
  BY <1>6, RegisterKeeps, DeregisterKeeps DEF RegistryChanges, RegistryStep
<1>7. CASE UNCHANGED vars
  BY <1>1, <1>7 DEF vars
<1> QED
  BY <1>2, <1>3, <1>4, <1>5, <1>6, <1>7 DEF Next, LibraryStep

(* No server is left out of the list that was registered all the time, if    *)
(* none was removed.                                                         *)
THEOREM ListsAreComplete == Spec => []AllowListComplete
<1>1. RegistryInv => AllowListComplete
  BY DEF RegistryInv
<1> QED
  BY <1>1, InitRegistry, NextRegistry, PTL DEF Spec

-----------------------------------------------------------------------------
(* The overview.  Where the pieces of a file are.                            *)

(* The numbers of a set have a least one.                                    *)
LEMMA LeastNumber ==
  ASSUME NEW T, T \subseteq Nat, T # {}
  PROVE  \E n \in T : \A m \in T : n <= m
<1>1. \A m, n \in Nat : m < n => <<m, n>> \in OpToRel(<, Nat)
  BY Zenon DEF OpToRel
<1>2. PICK n \in T : \A m \in T : ~(<<m, n>> \in OpToRel(<, Nat))
  BY NatLessThanWellFounded, WFMin, Zenon
<1>3. \A m \in T : ~(m < n)
  BY <1>1, <1>2, Zenon
<1> QED
  BY <1>3, SMT

(* The recursion of Ends: the sizes of the first pieces, summed.             *)
Sums(sum, f, n) ==
  sum = [k \in 0 .. n |-> IF k = 0 THEN 0 ELSE sum[k - 1] + f[k].size]

(* There are such sums of any number of pieces, for from those of fewer      *)
(* pieces the next one is had.                                               *)
LEMMA SumsExist ==
  ASSUME NEW f, NEW n \in Nat
  PROVE  \E sum : Sums(sum, f, n)
<1> SUFFICES ASSUME ~(\E sum : Sums(sum, f, n)) PROVE FALSE
  OBVIOUS
<1> DEFINE none == {m \in Nat : ~(\E sum : Sums(sum, f, m))}
<1>1. PICK m \in none : \A k \in none : m <= k
  BY LeastNumber
<1>2. m # 0
  <2>1. Sums([k \in 0 .. 0 |-> 0], f, 0)
    BY DEF Sums
  <2> QED
    BY <2>1
<1>3. m - 1 \in Nat /\ m - 1 \notin none
  BY <1>1, <1>2
<1>4. PICK less : Sums(less, f, m - 1)
  BY <1>3
<1> DEFINE sum == [k \in 0 .. m |-> IF k < m THEN less[k] ELSE less[m - 1] + f[m].size]
<1>5. ASSUME NEW k \in 0 .. m
      PROVE  sum[k] = IF k = 0 THEN 0 ELSE sum[k - 1] + f[k].size
  <2>1. CASE k < m
    <3>1. k \in 0 .. m - 1 /\ sum[k] = less[k]
      BY <2>1, <1>3
    <3>2. less[k] = IF k = 0 THEN 0 ELSE less[k - 1] + f[k].size
      BY <1>4, <3>1 DEF Sums
    <3>3. k # 0 => sum[k - 1] = less[k - 1]
      BY <2>1
    <3> QED
      BY <3>1, <3>2, <3>3
  <2>2. CASE k = m
    <3>1. sum[m] = less[m - 1] + f[m].size /\ sum[m - 1] = less[m - 1]
      BY <1>2, <1>3
    <3> QED
      BY <2>2, <1>2, <3>1
  <2> QED
    BY <2>1, <2>2
<1>6. Sums(sum, f, m)
  <2>1. sum = [k \in 0 .. m |-> sum[k]]
    OBVIOUS
  <2> HIDE DEF sum
  <2> QED
    BY <2>1, <1>5 DEF Sums
<1> QED
  BY <1>1, <1>6

(* Where each piece ends, from where the one before it does.                 *)
LEMMA EndsRecur ==
  \A f : Len(f) \in Nat =>
    /\ Archive!Ends(f)[0] = 0
    /\ \A k \in 1 .. Len(f) : Archive!Ends(f)[k] = Archive!Ends(f)[k - 1] + f[k].size
<1>1. SUFFICES ASSUME NEW f, Len(f) \in Nat
      PROVE  /\ Archive!Ends(f)[0] = 0
             /\ \A k \in 1 .. Len(f) : Archive!Ends(f)[k] = Archive!Ends(f)[k - 1] + f[k].size
  OBVIOUS
<1> DEFINE end == CHOOSE sum : Sums(sum, f, Len(f))
<1>2. Archive!Ends(f) = end
  BY DEF Archive!Ends, Sums
<1>3. Sums(end, f, Len(f))
  BY <1>1, SumsExist
<1> HIDE DEF end
<1>4. \A k \in 0 .. Len(f) : end[k] = IF k = 0 THEN 0 ELSE end[k - 1] + f[k].size
  BY <1>3 DEF Sums
<1>5. end[0] = 0
  BY <1>1, <1>4
<1>6. ASSUME NEW k \in 1 .. Len(f) PROVE end[k] = end[k - 1] + f[k].size
  <2>1. k \in 0 .. Len(f) /\ k # 0
    OBVIOUS
  <2> QED
    BY <1>4, <2>1
<1> QED
  BY <1>2, <1>5, <1>6

(* A file of pieces that have a size.                                     *)
IsFile(f) ==
  /\ Len(f) \in Nat /\ DOMAIN f = 1 .. Len(f)
  /\ \A k \in 1 .. Len(f) : f[k].size \in Nat

(* No piece ends before one that precedes it.                                *)
LEMMA EndsGrow ==
  \A f : IsFile(f) =>
    \A k \in 0 .. Len(f) :
      /\ Archive!Ends(f)[k] \in Nat
      /\ \A j \in 0 .. k : Archive!Ends(f)[j] <= Archive!Ends(f)[k]
<1>1. SUFFICES ASSUME NEW f, IsFile(f)
      PROVE  \A k \in 0 .. Len(f) :
               /\ Archive!Ends(f)[k] \in Nat
               /\ \A j \in 0 .. k : Archive!Ends(f)[j] <= Archive!Ends(f)[k]
  OBVIOUS
<1>2. PICK n : n = Len(f) /\ n \in Nat
  BY <1>1 DEF IsFile
<1>3. PICK end : end = Archive!Ends(f)
  OBVIOUS
<1> DEFINE Grown(k) == end[k] \in Nat /\ \A j \in 0 .. k : end[j] <= end[k]
           bad == {k \in 0 .. n : ~Grown(k)}
<1>4. SUFFICES ASSUME bad # {} PROVE FALSE
  BY <1>2, <1>3
<1>5. PICK k \in bad : \A j \in bad : k <= j
  <2>1. bad \subseteq Nat
    BY <1>2
  <2> HIDE DEF bad
  <2> QED
    BY <1>4, <2>1, LeastNumber
<1>6. end[0] = 0 /\ \A i \in 1 .. n : end[i] = end[i - 1] + f[i].size
  BY <1>1, <1>2, <1>3, EndsRecur
<1>7. k # 0
  <2>1. Grown(0)
    BY <1>6
  <2> QED
    BY <2>1
<1>8. k - 1 \in 0 .. n /\ Grown(k - 1)
  BY <1>2, <1>5, <1>7
<1>9. k \in 1 .. n /\ end[k] = end[k - 1] + f[k].size /\ f[k].size \in Nat
  BY <1>1, <1>2, <1>6, <1>7 DEF IsFile
<1>10. ~(end[k] \in Nat /\ \A j \in 0 .. k : end[j] <= end[k])
  OBVIOUS
<1>11. end[k - 1] \in Nat /\ \A j \in 0 .. k - 1 : end[j] <= end[k - 1]
  BY <1>8
<1>12. end[k] \in Nat /\ end[k - 1] <= end[k]
  BY <1>9, <1>11
<1>13. ASSUME NEW j \in 0 .. k PROVE end[j] <= end[k]
  <2>1. CASE j = k
    BY <2>1, <1>12
  <2>2. CASE j # k
    <3>1. j \in 0 .. k - 1
      BY <2>2, <1>9
    <3>2. end[j] <= end[k - 1]
      BY <3>1, <1>11
    <3>3. end[j] = 0 \/ end[j] \in Nat
      <4>1. j \in 0 .. n /\ j < k
        BY <3>1, <1>9, <1>2
      <4>2. j \notin bad
        BY <4>1, <1>5
      <4> QED
        BY <4>1, <4>2
    <3> QED
      BY <3>2, <3>3, <1>9, <1>11
  <2> QED
    BY <2>1, <2>2
<1> QED
  BY <1>10, <1>12, <1>13

(* Pieces that are not empty begin at places of their own.                   *)
LEMMA PieceIsFound ==
  \A f : IsFile(f) /\ (\A k \in DOMAIN f : f[k].size # 0) =>
    \A k \in DOMAIN f : Archive!PieceAt(f, Archive!Offset(f, k)) = f[k]
<1>1. SUFFICES ASSUME NEW f, IsFile(f), \A k \in DOMAIN f : f[k].size # 0,
                      NEW k \in DOMAIN f
      PROVE  Archive!PieceAt(f, Archive!Offset(f, k)) = f[k]
  OBVIOUS
<1>2. PICK n : n = Len(f) /\ n \in Nat /\ DOMAIN f = 1 .. n
  BY <1>1 DEF IsFile
<1>3. PICK end : end = Archive!Ends(f)
  OBVIOUS
<1>4. \A j \in 0 .. n : end[j] \in Nat /\ \A i \in 0 .. j : end[i] <= end[j]
  BY <1>1, <1>2, <1>3, EndsGrow
<1>5. \A j \in 1 .. n : end[j] = end[j - 1] + f[j].size /\ f[j].size \in Nat
  BY <1>1, <1>2, <1>3, EndsRecur DEF IsFile
<1>6. \A i, j \in 1 .. n : i < j => end[i - 1] < end[j - 1]
  <2>1. SUFFICES ASSUME NEW i \in 1 .. n, NEW j \in 1 .. n, i < j
        PROVE  end[i - 1] < end[j - 1]
    OBVIOUS
  <2>2. i - 1 \in 0 .. n /\ j - 1 \in 0 .. n /\ i \in 0 .. j - 1
    BY <1>2, <2>1
  <2>3. end[i] <= end[j - 1] /\ end[i - 1] \in Nat /\ end[i] \in Nat /\ end[j - 1] \in Nat
    BY <1>4, <2>2
  <2>4. end[i] = end[i - 1] + f[i].size /\ f[i].size \in Nat /\ f[i].size # 0
    BY <1>1, <1>2, <1>5
  <2> QED
    BY <2>3, <2>4
<1>7. \A j \in 1 .. n : end[j - 1] = end[k - 1] => j = k
  <2>1. SUFFICES ASSUME NEW j \in 1 .. n, end[j - 1] = end[k - 1], j # k PROVE FALSE
    OBVIOUS
  <2>2. j < k \/ k < j
    BY <2>1, <1>2
  <2>3. end[j - 1] < end[k - 1] \/ end[k - 1] < end[j - 1]
    BY <2>2, <1>2, <1>6
  <2>4. end[k - 1] \in Nat
    BY <1>2, <1>4
  <2> QED
    BY <2>1, <2>3, <2>4
<1>8. k = CHOOSE j \in DOMAIN f : Archive!Offset(f, j) = Archive!Offset(f, k)
  BY <1>2, <1>3, <1>7 DEF Archive!Offset
<1> QED
  BY <1>8 DEF Archive!PieceAt

-----------------------------------------------------------------------------
(* How many of three numbers are in a set of them.                           *)
One(condition) == IF condition THEN 1 ELSE 0
LEMMA CountOfThree ==
  \A S : S \subseteq 1 .. 3 =>
    Cardinality(S) = One(1 \in S) + One(2 \in S) + One(3 \in S)
<1>1. SUFFICES ASSUME NEW S, S \subseteq 1 .. 3
      PROVE  Cardinality(S) = One(1 \in S) + One(2 \in S) + One(3 \in S)
  OBVIOUS
<1>2. ASSUME NEW T, NEW x, IsFiniteSet(T), x \notin T
      PROVE  /\ IsFiniteSet(T \cup (S \cap {x}))
             /\ Cardinality(T \cup (S \cap {x})) = Cardinality(T) + One(x \in S)
  <2>1. CASE x \in S
    <3>1. T \cup (S \cap {x}) = T \cup {x}
      BY <2>1
    <3> QED
      BY <1>2, <2>1, <3>1, FS_AddElement DEF One
  <2>2. CASE x \notin S
    <3>1. T \cup (S \cap {x}) = T
      BY <2>2
    <3>2. Cardinality(T) \in Nat /\ One(x \in S) = 0
      BY <1>2, <2>2, FS_CardinalityType DEF One
    <3>3. Cardinality(T) + One(x \in S) = Cardinality(T)
      BY <3>2
    <3> QED
      BY <1>2, <3>1, <3>3
  <2> QED
    BY <2>1, <2>2
<1>3. IsFiniteSet({}) /\ Cardinality({}) = 0
  BY FS_EmptySet
<1> DEFINE A == {} \cup (S \cap {1})
           B == A \cup (S \cap {2})
           C == B \cup (S \cap {3})
<1>4. IsFiniteSet(A) /\ Cardinality(A) = One(1 \in S)
  <2>1. IsFiniteSet(A) /\ Cardinality(A) = 0 + One(1 \in S)
    BY <1>2, <1>3
  <2> QED
    BY <2>1 DEF One
<1>5. IsFiniteSet(B) /\ Cardinality(B) = Cardinality(A) + One(2 \in S)
  <2>1. 2 \notin A
    OBVIOUS
  <2> HIDE DEF A
  <2> QED
    BY <1>2, <1>4, <2>1
<1>6. Cardinality(C) = Cardinality(B) + One(3 \in S)
  <2>1. 3 \notin B
    OBVIOUS
  <2> HIDE DEF B
  <2> QED
    BY <1>2, <1>5, <2>1
<1>7. C = S
  <2>1. \A m \in S : m = 1 \/ m = 2 \/ m = 3
    BY <1>1
  <2> QED
    BY <2>1, Zenon
<1> QED
  BY <1>4, <1>5, <1>6, <1>7

(* The archive counts as everybody does.                                     *)
LEMMA SameCount == \A S : Archive!Cardinality(S) = Cardinality(S)
  BY DEF Archive!Cardinality, Cardinality

(* Sequences of the same elements are the same.                              *)
LEMMA SameSequence ==
  ASSUME NEW S, NEW s \in Seq(S), NEW t \in Seq(S),
         Len(s) = Len(t), \A k \in 1 .. Len(s) : s[k] = t[k]
  PROVE  s = t
<1>1. DOMAIN s = 1 .. Len(s) /\ DOMAIN t = 1 .. Len(s) 
  OBVIOUS
<1>2. s = [k \in 1 .. Len(s) |-> s[k]] /\ t = [k \in 1 .. Len(s) |-> t[k]]
  BY <1>1
<1> QED
  BY <1>2

(* Short sequences, joined.                                                  *)
LEMMA Joined ==
  /\ <<>> \o <<>> = <<>>
  /\ \A x : <<>> \o <<x>> = <<x>> /\ <<x>> \o <<>> = <<x>>
  /\ \A x, y : <<x>> \o <<y>> = <<x, y>> /\ <<x, y>> \o <<>> = <<x, y>>
  /\ \A x, y, z : <<x, y>> \o <<z>> = <<x, y, z>>
<1>1. <<>> \o <<>> = <<>>
  OBVIOUS
<1>2. ASSUME NEW x PROVE <<>> \o <<x>> = <<x>> /\ <<x>> \o <<>> = <<x>>
  OBVIOUS
<1>3. ASSUME NEW x, NEW y PROVE <<x>> \o <<y>> = <<x, y>>
  <2>1. <<x>> \in Seq({x, y}) /\ <<y>> \in Seq({x, y}) /\ <<x, y>> \in Seq({x, y})
    OBVIOUS
  <2>2. PICK s : s = <<x>> \o <<y>>
    OBVIOUS
  <2>3. Len(s) = 2 /\ s[1] = x /\ s[2] = y /\ s \in Seq({x, y})
    BY <2>1, <2>2
  <2>4. PICK t : t = <<x, y>>
    OBVIOUS
  <2>5. Len(t) = 2 /\ t[1] = x /\ t[2] = y /\ t \in Seq({x, y})
    BY <2>1, <2>4
  <2>6. \A k \in 1 .. Len(s) : s[k] = t[k]
    BY <2>3, <2>5
  <2> QED
    BY <2>2, <2>4, <2>3, <2>5, <2>6, SameSequence
<1>4. ASSUME NEW x, NEW y PROVE <<x, y>> \o <<>> = <<x, y>>
  OBVIOUS
<1>5. ASSUME NEW x, NEW y, NEW z PROVE <<x, y>> \o <<z>> = <<x, y, z>>
  <2>1. <<x, y>> \in Seq({x, y, z}) /\ <<z>> \in Seq({x, y, z}) /\ <<x, y, z>> \in Seq({x, y, z})
    OBVIOUS
  <2>2. PICK s : s = <<x, y>> \o <<z>>
    OBVIOUS
  <2>3. Len(s) = 3 /\ s[1] = x /\ s[2] = y /\ s[3] = z /\ s \in Seq({x, y, z})
    BY <2>1, <2>2
  <2>4. PICK t : t = <<x, y, z>>
    OBVIOUS
  <2>5. Len(t) = 3 /\ t[1] = x /\ t[2] = y /\ t[3] = z /\ t \in Seq({x, y, z})
    BY <2>1, <2>4
  <2>6. \A k \in 1 .. Len(s) : s[k] = t[k]
    BY <2>3, <2>5
  <2> QED
    BY <2>2, <2>4, <2>3, <2>5, <2>6, SameSequence
<1> QED
  BY <1>1, <1>2, <1>3, <1>4, <1>5, Zenon

(* What the zip64 information of a record has for it, and where in it.       *)
LEMMA LeftInOrder ==
  \A record, size, offset :
    LET left == Archive!LeftToZip64(record, size, offset)
    IN /\ Len(left) = Cardinality(Archive!Replaced(record))
       /\ DOMAIN left = 1 .. Len(left)
       /\ 1 \in Archive!Replaced(record) =>
            /\ Archive!PlaceInOrder(record, 1) \in DOMAIN left
            /\ left[Archive!PlaceInOrder(record, 1)] = size
       /\ 3 \in Archive!Replaced(record) =>
            /\ Archive!PlaceInOrder(record, 3) \in DOMAIN left
            /\ left[Archive!PlaceInOrder(record, 3)] = offset
       /\ left = <<>> => Archive!Replaced(record) = {}
<1>1. SUFFICES ASSUME NEW record, NEW size, NEW offset
      PROVE  LET left == Archive!LeftToZip64(record, size, offset)
             IN /\ Len(left) = Cardinality(Archive!Replaced(record))
                /\ DOMAIN left = 1 .. Len(left)
                /\ 1 \in Archive!Replaced(record) =>
                     /\ Archive!PlaceInOrder(record, 1) \in DOMAIN left
                     /\ left[Archive!PlaceInOrder(record, 1)] = size
                /\ 3 \in Archive!Replaced(record) =>
                     /\ Archive!PlaceInOrder(record, 3) \in DOMAIN left
                     /\ left[Archive!PlaceInOrder(record, 3)] = offset
                /\ left = <<>> => Archive!Replaced(record) = {}
  OBVIOUS
<1> DEFINE S == Archive!Replaced(record)
           left == Archive!LeftToZip64(record, size, offset)
<1>2. /\ S \subseteq 1 .. 3
      /\ 1 \in S <=> record.uncompressedSize = Archive!Saturated
      /\ 2 \in S <=> record.compressedSize = Archive!Saturated
      /\ 3 \in S <=> record.relativeOffsetOfLocalHeader = Archive!Saturated
  BY DEF Archive!Replaced, Archive!Fields
<1>3. left = Archive!When(1 \in S, size) \o Archive!When(2 \in S, size)
               \o Archive!When(3 \in S, offset)
  BY <1>2 DEF Archive!LeftToZip64, Archive!When
<1>4. /\ Cardinality(S) = One(1 \in S) + One(2 \in S) + One(3 \in S)
      /\ 1 \in S => Archive!PlaceInOrder(record, 1) = 1
      /\ 3 \in S => Archive!PlaceInOrder(record, 3) = Cardinality(S)
  <2>1. 3 \in S => {m \in S : m <= 3} = S
    BY <1>2
  <2>2. {m \in S : m <= 1} \subseteq 1 .. 3 /\ 2 \notin {m \in S : m <= 1}
        /\ 3 \notin {m \in S : m <= 1} /\ (1 \in S => 1 \in {m \in S : m <= 1})
    BY <1>2
  <2>3. 1 \in S => Cardinality({m \in S : m <= 1}) = 1
    <3> DEFINE T == {m \in S : m <= 1}
    <3>1. T \subseteq 1 .. 3 /\ 2 \notin T /\ 3 \notin T /\ (1 \in S => 1 \in T)
      BY <2>2
    <3> HIDE DEF T
    <3>2. Cardinality(T) = One(1 \in T) + One(2 \in T) + One(3 \in T)
      BY <3>1, CountOfThree
    <3>3. 1 \in S => Cardinality(T) = 1
      BY <3>1, <3>2 DEF One
    <3> QED
      BY <3>3 DEF T
  <2>4. Cardinality(S) = One(1 \in S) + One(2 \in S) + One(3 \in S)
    <3>1. PICK T : T = S
      OBVIOUS
    <3> QED
      BY <1>2, <3>1, CountOfThree
  <2>5. \A n : Archive!PlaceInOrder(record, n) = Cardinality({m \in S : m <= n})
    BY SameCount DEF Archive!PlaceInOrder
  <2> HIDE DEF S
  <2>6. 3 \in S => Archive!PlaceInOrder(record, 3) = Cardinality(S)
    BY <2>1, <2>5, Zenon
  <2>7. 1 \in S => Archive!PlaceInOrder(record, 1) = 1
    BY <2>3, <2>5, Zenon
  <2> QED
    BY <2>4, <2>6, <2>7
<1>5. PICK n : n = Cardinality(S)
  OBVIOUS
<1> DEFINE Placed ==
             /\ Len(left) = n /\ DOMAIN left = 1 .. n
             /\ 1 \in S => 1 \in 1 .. n /\ left[1] = size
             /\ 3 \in S => n \in 1 .. n /\ left[n] = offset
             /\ left = <<>> => n = 0
<1> HIDE DEF S, left, Placed
<1>6. Placed
  <2>1. CASE 1 \in S /\ 2 \in S /\ 3 \in S
    <3>1. n = 3
      BY <2>1, <1>4, <1>5 DEF One
    <3>2. left = <<size>> \o <<size>> \o <<offset>>
      BY <2>1, <1>3, Zenon DEF Archive!When
    <3>3. left = <<size, size, offset>>
      <4>1. <<size>> \o <<size>> = <<size, size>>
        BY Joined, Zenon
      <4>2. <<size, size>> \o <<offset>> = <<size, size, offset>>
        BY Joined, Zenon
      <4> QED
        BY <3>2, <4>1, <4>2, Zenon
    <3> QED
      BY <2>1, <3>1, <3>3 DEF Placed
  <2>2. CASE 1 \in S /\ 2 \in S /\ 3 \notin S
    <3>1. n = 2
      BY <2>2, <1>4, <1>5 DEF One
    <3>2. left = <<size>> \o <<size>> \o <<>>
      BY <2>2, <1>3, Zenon DEF Archive!When
    <3>3. left = <<size, size>>
      BY <3>2, Joined, Zenon
    <3> QED
      BY <2>2, <3>1, <3>3 DEF Placed
  <2>3. CASE 1 \in S /\ 2 \notin S /\ 3 \in S
    <3>1. n = 2
      BY <2>3, <1>4, <1>5 DEF One
    <3>2. left = <<size>> \o <<>> \o <<offset>>
      BY <2>3, <1>3, Zenon DEF Archive!When
    <3>3. left = <<size, offset>>
      BY <3>2, Joined, Zenon
    <3> QED
      BY <2>3, <3>1, <3>3 DEF Placed
  <2>4. CASE 1 \in S /\ 2 \notin S /\ 3 \notin S
    <3>1. n = 1
      BY <2>4, <1>4, <1>5 DEF One
    <3>2. left = <<size>> \o <<>> \o <<>>
      BY <2>4, <1>3, Zenon DEF Archive!When
    <3>3. left = <<size>>
      BY <3>2, Joined, Zenon
    <3> QED
      BY <2>4, <3>1, <3>3 DEF Placed
  <2>5. CASE 1 \notin S /\ 2 \in S /\ 3 \in S
    <3>1. n = 2
      BY <2>5, <1>4, <1>5 DEF One
    <3>2. left = <<>> \o <<size>> \o <<offset>>
      BY <2>5, <1>3, Zenon DEF Archive!When
    <3>3. left = <<size, offset>>
      BY <3>2, Joined, Zenon
    <3> QED
      BY <2>5, <3>1, <3>3 DEF Placed
  <2>6. CASE 1 \notin S /\ 2 \in S /\ 3 \notin S
    <3>1. n = 1
      BY <2>6, <1>4, <1>5 DEF One
    <3>2. left = <<>> \o <<size>> \o <<>>
      BY <2>6, <1>3, Zenon DEF Archive!When
    <3>3. left = <<size>>
      BY <3>2, Joined, Zenon
    <3> QED
      BY <2>6, <3>1, <3>3 DEF Placed
  <2>7. CASE 1 \notin S /\ 2 \notin S /\ 3 \in S
    <3>1. n = 1
      BY <2>7, <1>4, <1>5 DEF One
    <3>2. left = <<>> \o <<>> \o <<offset>>
      BY <2>7, <1>3, Zenon DEF Archive!When
    <3>3. left = <<offset>>
      BY <3>2, Joined, Zenon
    <3> QED
      BY <2>7, <3>1, <3>3 DEF Placed
  <2>8. CASE 1 \notin S /\ 2 \notin S /\ 3 \notin S
    <3>1. n = 0
      BY <2>8, <1>4, <1>5 DEF One
    <3>2. left = <<>> \o <<>> \o <<>>
      BY <2>8, <1>3, Zenon DEF Archive!When
    <3>3. left = <<>>
      BY <3>2, Joined, Zenon
    <3> QED
      BY <2>8, <3>1, <3>3 DEF Placed
  <2> QED
    BY <2>1, <2>2, <2>3, <2>4, <2>5, <2>6, <2>7, <2>8, Zenon
<1>7. n = 0 => S = {}
  BY <1>2, <1>4, <1>5 DEF One
<1>8. /\ Len(left) = Cardinality(S) /\ DOMAIN left = 1 .. Len(left)
      /\ 1 \in S => /\ Archive!PlaceInOrder(record, 1) \in DOMAIN left
                    /\ left[Archive!PlaceInOrder(record, 1)] = size
      /\ 3 \in S => /\ Archive!PlaceInOrder(record, 3) \in DOMAIN left
                    /\ left[Archive!PlaceInOrder(record, 3)] = offset
      /\ left = <<>> => S = {}
  BY <1>4, <1>5, <1>6, <1>7 DEF Placed
<1> QED
  BY <1>8 DEF S, left

(* A record of an archive that is parsed gives the size and the place of its *)
(* entry.                                                                    *)
LEMMA ValuesAreTrue ==
  \A record, size, offset :
    Archive!IsRecordOf(record, size, offset) /\ ~Archive!Unparsable(record) =>
      /\ Archive!UncompressedSize(record) = size
      /\ Archive!OffsetOfHeader(record) = offset
<1>1. SUFFICES ASSUME NEW record, NEW size, NEW offset,
                      Archive!IsRecordOf(record, size, offset), ~Archive!Unparsable(record)
      PROVE  /\ Archive!UncompressedSize(record) = size
             /\ Archive!OffsetOfHeader(record) = offset
  OBVIOUS
<1>2. PICK S : S = Archive!Replaced(record)
  OBVIOUS
<1>3. PICK left : left = Archive!LeftToZip64(record, size, offset)
  OBVIOUS
<1>4. PICK extra : extra = record.extraFields
  OBVIOUS
<1>5. PICK place : place = [n \in 1 .. 3 |-> Archive!PlaceInOrder(record, n)]
  OBVIOUS
<1>6. /\ Len(left) = Cardinality(S) /\ DOMAIN left = 1 .. Len(left)
      /\ 1 \in S => place[1] \in DOMAIN left /\ left[place[1]] = size
      /\ 3 \in S => place[3] \in DOMAIN left /\ left[place[3]] = offset
      /\ left = <<>> => S = {}
  BY <1>2, <1>3, <1>5, LeftInOrder
<1>7. /\ 1 \notin S => record.uncompressedSize = size
      /\ 3 \notin S => record.relativeOffsetOfLocalHeader = offset
  BY <1>1, <1>2 DEF Archive!IsRecordOf, Archive!Replaced, Archive!Fields
<1>8. left # <<>> => Archive!LooksAtExtraFields(record) /\ Archive!HasZip64(record)
  <2>1. SUFFICES ASSUME left # <<>>
        PROVE  Archive!LooksAtExtraFields(record) /\ Archive!HasZip64(record)
    OBVIOUS
  <2>2. /\ record.versionNeededToExtract >= Archive!VERSION_NEEDED_TO_EXTRACT_ZIP64
        /\ Archive!HasZip64(record)
    BY <1>1, <1>3, <2>1 DEF Archive!IsRecordOf
  <2>3. extra # <<>>
    BY <1>4, <2>2 DEF Archive!HasZip64
  <2>4. PICK T : extra \in Seq(T) /\ \A i \in DOMAIN extra : extra[i].size \in Nat
    BY <1>1, <1>4, Zenon DEF Archive!IsRecordOf
  <2>5. IsFile(extra) /\ Len(extra) \in Nat /\ Len(extra) # 0
    BY <2>3, <2>4 DEF IsFile
  <2>6. Archive!Bytes(extra) \in Nat
    <3>1. Len(extra) \in 0 .. Len(extra)
      BY <2>5
    <3> QED
      BY <2>5, <3>1, EndsGrow DEF Archive!Bytes
  <2>7. Archive!ExtraFieldLength(record) > 0
    BY <1>4, <2>5, <2>6 DEF Archive!ExtraFieldLength
  <2> QED
    BY <2>2, <2>7 DEF Archive!LooksAtExtraFields
<1>9. PICK values : values = Archive!Zip64Values(record)
  OBVIOUS
<1>10. left # <<>> => \A n \in DOMAIN left : values[n] = left[n]
  <2>1. SUFFICES ASSUME left # <<>> PROVE \A n \in DOMAIN left : values[n] = left[n]
    OBVIOUS
  <2>2. PICK i \in DOMAIN extra :
          /\ i = CHOOSE j \in DOMAIN extra : extra[j].id = Archive!Zip64
          /\ extra[i].id = Archive!Zip64
    BY <1>4, <1>8, <2>1 DEF Archive!HasZip64
  <2>3. values = extra[i].values
    BY <1>4, <1>9, <2>2 DEF Archive!Zip64Values
  <2>4. /\ values \in Seq(Nat)
        /\ \A n \in DOMAIN values \cap DOMAIN left : values[n] = left[n]
    BY <1>1, <1>3, <1>4, <2>2, <2>3, Zenon DEF Archive!IsRecordOf
  <2>5. ~(Len(values) < Archive!Cardinality(S))
    BY <1>1, <1>2, <1>8, <1>9, <2>1, Zenon DEF Archive!Unparsable
  <2>6. ~(Len(values) < Len(left))
    BY <1>6, <2>5, SameCount
  <2>7. Len(left) \in Nat
    BY <1>3 DEF Archive!LeftToZip64, Archive!When
  <2>8. DOMAIN left \subseteq DOMAIN values
    BY <1>6, <2>4, <2>6, <2>7
  <2> QED
    BY <2>4, <2>8
<1>11. \A n \in 1 .. 3 :
         Archive!Value(record, n) =
           IF left # <<>> /\ n \in S THEN values[place[n]] ELSE record[Archive!Fields[n]]
  BY <1>2, <1>5, <1>6, <1>8, <1>9 DEF Archive!Value
<1>12. /\ Archive!Fields[1] = "uncompressedSize"
       /\ Archive!Fields[3] = "relativeOffsetOfLocalHeader"
  BY DEF Archive!Fields
<1>13. Archive!Value(record, 1) = size
  BY <1>6, <1>7, <1>10, <1>11, <1>12
<1>14. Archive!Value(record, 3) = offset
  BY <1>6, <1>7, <1>10, <1>11, <1>12
<1> QED
  BY <1>13, <1>14 DEF Archive!UncompressedSize, Archive!OffsetOfHeader

(* An archive is a file of pieces that are not empty.                        *)
LEMMA ArchiveIsFile ==
  \A f : Archive!IsArchive(f) =>
    /\ IsFile(f) /\ f # <<>>
    /\ \A k \in DOMAIN f : f[k].size # 0
<1>1. SUFFICES ASSUME NEW f, Archive!IsArchive(f)
      PROVE  /\ IsFile(f) /\ f # <<>>
             /\ \A k \in DOMAIN f : f[k].size # 0
  OBVIOUS
<1>2. PICK T : f \in Seq(T)
  BY <1>1, Zenon DEF Archive!IsArchive
<1>3. f # <<>> /\ \A k \in DOMAIN f : f[k].size \in Nat \ {0}
  BY <1>1, Zenon DEF Archive!IsArchive
<1> QED
  BY <1>2, <1>3 DEF IsFile

(* The record of an archive that is parsed tells where its entry is.         *)
LEMMA LocatedIsTrue ==
  \A f : Archive!IsArchive(f) =>
    \A k \in DOMAIN f :
      f[k].kind = "record" /\ ~Archive!Unparsable(f[k]) =>
        Archive!Located(f, f[k]) = Archive!TrueEntry(f, f[k].name)
<1>1. SUFFICES ASSUME NEW f, Archive!IsArchive(f), NEW k \in DOMAIN f,
                      f[k].kind = "record", ~Archive!Unparsable(f[k])
      PROVE  Archive!Located(f, f[k]) = Archive!TrueEntry(f, f[k].name)
  OBVIOUS
<1>2. PICK h \in DOMAIN f :
        /\ Archive!IsHeader(f, h, f[k].name)
        /\ Archive!IsRecordOf(f[k], Archive!EntryAt(f, h).size, Archive!Offset(f, h))
  BY <1>1, Zenon DEF Archive!IsArchive
<1>3. /\ Archive!UncompressedSize(f[k]) = Archive!EntryAt(f, h).size
      /\ Archive!OffsetOfHeader(f[k]) = Archive!Offset(f, h)
  BY <1>1, <1>2, ValuesAreTrue, Zenon
<1>4. IsFile(f) /\ \A j \in DOMAIN f : f[j].size # 0
  BY <1>1, ArchiveIsFile, Zenon
<1>5. Archive!HeaderLength(f, f[k]) = f[h].size
  <2>1. Archive!PieceAt(f, Archive!Offset(f, h)) = f[h]
    BY <1>4, PieceIsFound, Zenon
  <2> QED
    BY <1>3, <2>1, Zenon DEF Archive!HeaderLength
<1>6. Archive!Offset(f, h) + f[h].size = Archive!Ends(f)[h]
  <2>1. Len(f) \in Nat /\ h \in 1 .. Len(f)
    BY <1>4 DEF IsFile
  <2> QED
    BY <2>1, EndsRecur DEF Archive!Offset
<1>7. f[h].name = f[k].name
  BY <1>2, Zenon DEF Archive!IsHeader
<1>8. Archive!Located(f, f[k]) = Archive!EntryAt(f, h)
  <2>1. Archive!Located(f, f[k]) =
          [name |-> f[k].name, start |-> Archive!Ends(f)[h],
           size |-> Archive!EntryAt(f, h).size]
    BY <1>3, <1>5, <1>6, Zenon DEF Archive!Located
  <2> QED
    BY <1>7, <2>1 DEF Archive!EntryAt
<1>9. h = CHOOSE j \in DOMAIN f : Archive!IsHeader(f, j, f[k].name)
  <2>1. \A j \in DOMAIN f : Archive!IsHeader(f, j, f[k].name) => j = h
    BY <1>1, <1>2, <1>7, Zenon DEF Archive!IsArchive, Archive!IsHeader
  <2> QED
    BY <1>2, <2>1, Zenon
<1> QED
  BY <1>8, <1>9, Zenon DEF Archive!TrueEntry

(* Of the records of a name, one comes first.                                *)
LEMMA FirstIsNamed ==
  \A f, name :
    Archive!IsArchive(f) /\ (\E k \in Archive!getCDBuffers(f) : f[k].name = name) =>
      \E k \in Archive!getCDBuffers(f) :
        f[k].name = name /\ Archive!FirstNamed(f, name) = f[k]
<1>1. SUFFICES ASSUME NEW f, NEW name, Archive!IsArchive(f),
                      \E k \in Archive!getCDBuffers(f) : f[k].name = name
      PROVE  \E k \in Archive!getCDBuffers(f) :
               f[k].name = name /\ Archive!FirstNamed(f, name) = f[k]
  OBVIOUS
<1> DEFINE named == {k \in Archive!getCDBuffers(f) : f[k].name = name}
<1>2. named \subseteq Nat
  <2>1. \A k \in named : k \in DOMAIN f
    BY Zenon DEF Archive!getCDBuffers
  <2>2. IsFile(f)
    BY <1>1, ArchiveIsFile, Zenon
  <2> HIDE DEF named
  <2>3. \A k \in DOMAIN f : k \in Nat
    BY <2>2 DEF IsFile
  <2> QED
    BY <2>1, <2>3
<1>3. named # {}
  BY <1>1
<1>4. Archive!FirstNamed(f, name) = f[CHOOSE k \in named : \A j \in named : k <= j]
  BY DEF Archive!FirstNamed
<1>5. PICK k \in named : k = CHOOSE i \in named : \A j \in named : i <= j
  <2> HIDE DEF named
  <2>1. \E k \in named : \A j \in named : k <= j
    BY <1>2, <1>3, LeastNumber
  <2> QED
    BY <2>1, Zenon
<1>6. Archive!FirstNamed(f, name) = f[k]
  BY <1>4, <1>5, Zenon
<1> QED
  BY <1>6

(* If the directory is parsed, the entries are where the overview says.      *)
LEMMA EntriesAreTrue ==
  \A f : Archive!IsArchive(f) /\ Archive!DirectoryParses(f) =>
    /\ \A e \in Archive!Entries(f) : e = Archive!TrueEntry(f, e.name)
    /\ \A k \in Archive!getCDBuffers(f) :
         Archive!TrueEntry(f, f[k].name) \in Archive!Entries(f)
<1>1. SUFFICES ASSUME NEW f, Archive!IsArchive(f), Archive!DirectoryParses(f)
      PROVE  /\ \A e \in Archive!Entries(f) : e = Archive!TrueEntry(f, e.name)
             /\ \A k \in Archive!getCDBuffers(f) :
                  Archive!TrueEntry(f, f[k].name) \in Archive!Entries(f)
  OBVIOUS
<1>2. ASSUME NEW k \in Archive!getCDBuffers(f)
      PROVE  /\ Archive!Located(f, f[k]) = Archive!TrueEntry(f, f[k].name)
             /\ Archive!Located(f, f[k]).name = f[k].name
  <2>1. k \in DOMAIN f /\ f[k].kind = "record"
    BY Zenon DEF Archive!getCDBuffers
  <2>2. ~Archive!Unparsable(f[k])
    BY <1>1, Zenon DEF Archive!DirectoryParses
  <2>3. Archive!Located(f, f[k]).name = f[k].name
    BY DEF Archive!Located
  <2> QED
    BY <1>1, <2>1, <2>2, <2>3, LocatedIsTrue, Zenon
<1>3. ASSUME NEW k \in Archive!getCDBuffers(f)
      PROVE  \E j \in Archive!getCDBuffers(f) :
               f[j].name = f[k].name /\ Archive!FirstNamed(f, f[k].name) = f[j]
  <2>1. PICK name : name = f[k].name
    OBVIOUS
  <2>2. \E j \in Archive!getCDBuffers(f) :
          f[j].name = name /\ Archive!FirstNamed(f, name) = f[j]
    BY <1>1, <2>1, FirstIsNamed, Zenon
  <2> QED
    BY <2>1, <2>2, Zenon
<1>4. ASSUME NEW e \in Archive!Entries(f) PROVE e = Archive!TrueEntry(f, e.name)
  <2>1. PICK k \in Archive!getCDBuffers(f) :
          e = Archive!Located(f, Archive!FirstNamed(f, f[k].name))
    BY Zenon DEF Archive!Entries
  <2>2. PICK j \in Archive!getCDBuffers(f) : Archive!FirstNamed(f, f[k].name) = f[j]
    BY <1>3, Zenon
  <2> QED
    BY <1>2, <2>1, <2>2, Zenon
<1>5. ASSUME NEW k \in Archive!getCDBuffers(f)
      PROVE  Archive!TrueEntry(f, f[k].name) \in Archive!Entries(f)
  <2>1. PICK j \in Archive!getCDBuffers(f) :
          f[j].name = f[k].name /\ Archive!FirstNamed(f, f[k].name) = f[j]
    BY <1>3, Zenon
  <2>2. Archive!Located(f, Archive!FirstNamed(f, f[k].name)) = Archive!TrueEntry(f, f[k].name)
    BY <1>2, <2>1, Zenon
  <2> QED
    BY <2>2, Zenon DEF Archive!Entries
<1> QED
  BY <1>4, <1>5

(* What can be read is read.                                                 *)
LEMMA ReadableIsRead ==
  \A f : Archive!IsArchive(f) /\ Archive!Readable(f) =>
    Archive!DirectoryParses(f) /\ Archive!ManifestFits(f)
<1>1. SUFFICES ASSUME NEW f, Archive!IsArchive(f), Archive!Readable(f)
      PROVE  Archive!DirectoryParses(f) /\ Archive!ManifestFits(f)
  OBVIOUS
<1> DEFINE records == {k \in DOMAIN f : f[k].kind = "record"}
<1>2. ASSUME NEW k \in records
      PROVE  /\ Archive!Bytes(f) - Archive!Offset(f, k) <= Archive!TailSize
             /\ ~Archive!Conflicting(f[k])
             /\ Archive!HasZip64(f[k]) =>
                  Len(Archive!Zip64Values(f[k])) >= Archive!Cardinality(Archive!Replaced(f[k]))
  BY <1>1 DEF Archive!Readable
<1>3. Archive!DirectoryParses(f)
  <2>1. SUFFICES ASSUME NEW k \in Archive!getCDBuffers(f) PROVE ~Archive!Unparsable(f[k])
    BY DEF Archive!DirectoryParses
  <2>2. k \in records
    BY Zenon DEF Archive!getCDBuffers
  <2>3. Archive!Cardinality(Archive!Replaced(f[k])) \in Nat
    <3>1. PICK S : S = Archive!Replaced(f[k]) /\ S \subseteq 1 .. 3
      BY DEF Archive!Replaced
    <3>2. Cardinality(S) \in Nat
      BY <3>1, CountOfThree DEF One
    <3> QED
      BY <3>1, <3>2, SameCount
  <2>4. ~Archive!Conflicting(f[k])
    BY <1>2, <2>2, Zenon
  <2>5. CASE Archive!HasZip64(f[k]) /\ Archive!LooksAtExtraFields(f[k])
    <3>1. Len(Archive!Zip64Values(f[k])) >= Archive!Cardinality(Archive!Replaced(f[k]))
      BY <1>2, <2>2, <2>5, Zenon
    <3>2. Len(Archive!Zip64Values(f[k])) \in Int
      <4>1. PICK h : Archive!IsRecordOf(f[k], Archive!EntryAt(f, h).size, Archive!Offset(f, h))
        BY <1>1, <2>2, Zenon DEF Archive!IsArchive
      <4>2. PICK extra : extra = f[k].extraFields
        OBVIOUS
      <4>3. PICK i \in DOMAIN extra :
              /\ i = CHOOSE j \in DOMAIN extra : extra[j].id = Archive!Zip64
              /\ extra[i].id = Archive!Zip64
        BY <2>5, <4>2 DEF Archive!HasZip64
      <4>4. Archive!Zip64Values(f[k]) = extra[i].values /\ extra[i].values \in Seq(Nat)
        BY <4>1, <4>2, <4>3, Zenon DEF Archive!Zip64Values, Archive!IsRecordOf
      <4> QED
        BY <4>4
    <3>3. ~(Len(Archive!Zip64Values(f[k])) < Archive!Cardinality(Archive!Replaced(f[k])))
      BY <2>3, <3>1, <3>2
    <3> QED
      BY <2>4, <3>3, Zenon DEF Archive!Unparsable
  <2> QED
    BY <2>4, <2>5, Zenon DEF Archive!Unparsable
<1>4. PICK k \in records : f[k].name = "0.manifest.json"
  BY <1>1 DEF Archive!Readable
<1>5. k \in Archive!getCDBuffers(f)
  <2>1. PICK n : n = Len(f) /\ n \in Nat /\ DOMAIN f = 1 .. n /\ n # 0
    <3>1. IsFile(f) /\ f # <<>>
      BY <1>1, ArchiveIsFile, Zenon
    <3>2. PICK T : f \in Seq(T)
      BY <1>1, Zenon DEF Archive!IsArchive
    <3> QED
      BY <3>1, <3>2 DEF IsFile
  <2>2. PICK end : end = Archive!Ends(f)
    OBVIOUS
  <2>3. f[n].kind = "end" /\ f[n].size >= 22 /\ f[n].size \in Nat
    BY <1>1, <2>1 DEF Archive!IsArchive, Archive!END_OF_CENTRAL_DIRECTORY_RECORD_SIZE
  <2>4. k \in 1 .. n /\ k # n /\ f[k].kind = "record"
    BY <2>1, <2>3
  <2>5. end[n] = end[n - 1] + f[n].size
    BY <2>1, <2>2, EndsRecur
  <2>6. IsFile(f)
    BY <1>1, ArchiveIsFile, Zenon
  <2>7. \A i \in 0 .. n : end[i] \in Nat /\ \A j \in 0 .. i : end[j] <= end[i]
    BY <2>1, <2>2, <2>6, EndsGrow, Zenon
  <2>8. k - 1 \in 0 .. n - 1 /\ n - 1 \in 0 .. n /\ k - 1 \in 0 .. n /\ n \in 0 .. n
    BY <2>1, <2>4
  <2>9. end[k - 1] <= end[n - 1] /\ end[k - 1] \in Nat /\ end[n - 1] \in Nat /\ end[n] \in Nat
    BY <2>7, <2>8
  <2>10. end[k - 1] <= end[n] - 22
    BY <2>3, <2>5, <2>9
  <2>11. Archive!Bytes(f) = end[n] /\ Archive!Offset(f, k) = end[k - 1]
    BY <2>1, <2>2, Zenon DEF Archive!Bytes, Archive!Offset
  <2>12. end[n] - end[k - 1] <= 1000
    BY <1>2, <2>11 DEF Archive!TailSize
  <2>13. end[n] - 1000 <= end[k - 1]
    BY <2>9, <2>12
  <2> QED
    BY <2>4, <2>10, <2>11, <2>13
    DEF Archive!getCDBuffers, Archive!TailSize, Archive!END_OF_CENTRAL_DIRECTORY_RECORD_SIZE
<1>6. Archive!ManifestFits(f)
  <2>1. PICK e \in Archive!Entries(f) : e = Archive!TrueEntry(f, "0.manifest.json")
    BY <1>1, <1>3, <1>4, <1>5, EntriesAreTrue, Zenon
  <2>2. e.name = "0.manifest.json"
    <3>1. PICK i \in Archive!getCDBuffers(f) :
            f[i].name = "0.manifest.json" /\ Archive!FirstNamed(f, "0.manifest.json") = f[i]
      BY <1>1, <1>4, <1>5, FirstIsNamed, Zenon
    <3>2. Archive!Located(f, f[i]) = Archive!TrueEntry(f, f[i].name)
      <4>1. i \in DOMAIN f /\ f[i].kind = "record" /\ ~Archive!Unparsable(f[i])
        BY <1>3, Zenon DEF Archive!getCDBuffers, Archive!DirectoryParses
      <4> QED
        BY <1>1, <4>1, LocatedIsTrue, Zenon
    <3>3. Archive!Located(f, f[i]).name = f[i].name
      BY DEF Archive!Located
    <3> QED
      BY <2>1, <3>1, <3>2, <3>3, Zenon
  <2>3. e.size <= manifestMaxSize
    BY <1>1, <2>1, Zenon DEF Archive!Readable
  <2> QED
    BY <2>2, <2>3, Zenon DEF Archive!ManifestFits
<1> QED
  BY <1>3, <1>6

(* What the promise of the overview stands for.                              *)
OverviewInv ==
  /\ overview \in [at : {"pending", "loaded", "failed", "sourceFailed"}, reads : Nat,
                   entries : {{}, Archive!Entries(file)}]
  /\ overview.reads # 0 => Archive!DirectoryParses(file)
  /\ overview.at = "loaded" =>
       Archive!DirectoryParses(file) /\ overview.entries = Archive!Entries(file)
  /\ overview.at = "failed" =>
       ~Archive!DirectoryParses(file) \/ ~Archive!ManifestFits(file)

LEMMA InitOverview == Init => OverviewInv
  BY DEF Init, OverviewInv, Pending

LEMMA ReadsOverview == OverviewInv /\ ReadOverview => OverviewInv'
<1> SUFFICES ASSUME OverviewInv, ReadOverview PROVE OverviewInv'
  OBVIOUS
<1>1. PICK o : o = overview
  OBVIOUS
<1>2. PICK parses, fits, entries :
        /\ parses = Archive!DirectoryParses(file) /\ fits = Archive!ManifestFits(file)
        /\ entries = Archive!Entries(file)
  OBVIOUS
<1>3. PICK headers : headers = Cardinality(Archive!getCDBuffers(file))
  OBVIOUS
<1>4. /\ o \in [at : {"pending", "loaded", "failed", "sourceFailed"}, reads : Nat,
                entries : {{}, entries}]
      /\ o.reads # 0 => parses
  BY <1>1, <1>2 DEF OverviewInv
<1>5. UNCHANGED file
  BY DEF ReadOverview, file
<1> DEFINE throws == (o.reads = 0 /\ ~parses) \/ (o.reads = headers /\ ~fits)
<1>6. overview' =
        IF throws THEN [o EXCEPT !.at = "failed"]
        ELSE IF o.reads <= headers THEN [o EXCEPT !.reads = o.reads + 1]
        ELSE [at |-> "loaded", reads |-> o.reads + 1, entries |-> entries]
  BY <1>1, <1>2, <1>3 DEF ReadOverview
<1>7. o.at = "pending"
  BY <1>1 DEF ReadOverview
<1>8. ~throws => parses
  BY <1>4
<1> DEFINE next == overview'
<1>9. /\ next \in [at : {"pending", "loaded", "failed", "sourceFailed"}, reads : Nat,
                   entries : {{}, entries}]
      /\ next.reads # 0 => parses
      /\ next.at = "loaded" => parses /\ next.entries = entries
      /\ next.at = "failed" => ~parses \/ ~fits
  <2>1. CASE throws
    BY <2>1, <1>4, <1>6
  <2>2. CASE ~throws /\ o.reads <= headers
    BY <2>2, <1>4, <1>6, <1>7, <1>8
  <2>3. CASE ~throws /\ ~(o.reads <= headers)
    BY <2>3, <1>4, <1>6, <1>8
  <2> QED
    BY <2>1, <2>2, <2>3
<1>10. Archive!DirectoryParses(file)' = parses /\ Archive!ManifestFits(file)' = fits
       /\ Archive!Entries(file)' = entries
  BY <1>2, <1>5
<1> QED
  BY <1>9, <1>10 DEF OverviewInv

(* The other steps leave the overview alone, or end it without a source.     *)
LEMMA NextOverview == OverviewInv /\ [Next]_vars => OverviewInv'
<1> SUFFICES ASSUME OverviewInv, [Next]_vars PROVE OverviewInv'
  OBVIOUS
<1>1. CASE ReadOverview
  BY <1>1, ReadsOverview
<1>2. CASE OverviewReadFails
  <2>1. UNCHANGED file /\ overview' = [overview EXCEPT !.at = "sourceFailed"]
    BY <1>2 DEF OverviewReadFails, file
  <2>2. Archive!DirectoryParses(file)' = Archive!DirectoryParses(file)
        /\ Archive!Entries(file)' = Archive!Entries(file)
    BY <2>1
  <2> QED
    BY <2>1, <2>2 DEF OverviewInv
<1>3. ASSUME UNCHANGED <<deployment, overview>> PROVE OverviewInv'
  <2>1. UNCHANGED <<file, overview>>
    BY <1>3 DEF file
  <2> QED
    BY <2>1 DEF OverviewInv
<1>4. ASSUME [Next]_vars, ~ReadOverview, ~OverviewReadFails
      PROVE  UNCHANGED <<deployment, overview>>
  BY <1>4
  DEF Next, vars, LibraryStep, ResolveType, LoadOverview, CallStep, Answer, ServerListStep,
      RegistryStep, RegistryChanges, OpenSource, ReadPrefix, PrefixFails, FetchRemote,
      DelegateSettles, ReturnManifest, DpopKeysReady, DpopKeysFail, ServersListed,
      OverviewReady, KeyRefused, StreamReady, ReturnObligations, Close, Request,
      sourceVars, wrapperVars, readerVars
<1> QED
  BY <1>1, <1>2, <1>3, <1>4

LEMMA OverviewInvTrue == OverviewInv => OverviewIsTrue
<1> SUFFICES ASSUME OverviewInv, Archive!IsArchive(file)
    PROVE  /\ overview.at = "loaded" =>
                \A e \in overview.entries : e = Archive!TrueEntry(file, e.name)
           /\ overview.at = "failed" => ~Archive!Readable(file)
  BY DEF OverviewIsTrue
<1>1. overview.at = "loaded" =>
        \A e \in overview.entries : e = Archive!TrueEntry(file, e.name)
  BY EntriesAreTrue, Zenon DEF OverviewInv
<1>2. overview.at = "failed" => ~Archive!Readable(file)
  BY ReadableIsRead, Zenon DEF OverviewInv
<1> QED
  BY <1>1, <1>2

(* For archives of any number of entries, of any sizes and in any order, of  *)
(* which each record has the sizes and the offset or leaves any of them to   *)
(* the zip64 information, among any other extra fields: the overview says    *)
(* where the entries are, and loadTDFStream fails by itself only on what the *)
(* reader does not promise to open.                                          *)
THEOREM OverviewsAreTrue == Spec => []OverviewIsTrue
<1>1. OverviewInv /\ [Next]_vars => OverviewInv'
  BY NextOverview
<1> QED
  BY InitOverview, <1>1, OverviewInvTrue, PTL DEF Spec
=============================================================================
