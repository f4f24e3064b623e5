-------------------------- MODULE KeyAccessServers --------------------------
(***************************************************************************)
(* fetchKeyAccessServers of lib/src/access.ts: the list of the key access    *)
(* servers registered at the platform, page by page, over Connect RPC        *)
(* (access/access-rpc.ts) and, when that fails and there is an AuthProvider, *)
(* from the beginning over HTTP (access/access-fetch.ts), which reads pages  *)
(* in the same way.                                                          *)
(*                                                                         *)
(* The registry is a list from which the platform cuts pages by offset.      *)
(* Servers may be registered and removed at any time.  A server is its       *)
(* origin, which is all that OriginAllowList keeps.                          *)
(***************************************************************************)
EXTENDS Naturals, Sequences, FiniteSets, SequencesExt

CONSTANTS
  Clients,          (* calls of fetchKeyAccessServers                         *)
  Servers,
  platformKas,      (* the server at platformUrl/kas                          *)
  PageSize          (* what the platform sends at once                        *)

ASSUME RegistryAssumption == PageSize \in Nat \ {0}

VARIABLES
  registry,
  removed,          (* servers that were removed: each is registered once      *)
  listing           (* the state of each call                                 *)

registryVars == <<registry, removed, listing>>

(* What a call knows: the protocol it speaks, the offset of the next page    *)
(* and the servers it has; and, for the properties, the servers that were    *)
(* registered when it began, none of them once a server has been removed.    *)
NotListing == [at |-> "none", nextOffset |-> 0, allServers |-> {}, since |-> {}]
Begins(protocol) == [NotListing EXCEPT !.at = protocol, !.since = ToSet(registry)]

RegistryInit(initial) ==
  /\ registry = initial
  /\ removed = {}
  /\ listing = [c \in Clients |-> NotListing]

-----------------------------------------------------------------------------
(* The platform.                                                             *)
Register(s) ==
  /\ s \notin ToSet(registry) \cup removed
  /\ \E i \in 1 .. Len(registry) + 1 : registry' = InsertAt(registry, i, s)
  /\ UNCHANGED <<removed, listing>>

Deregister(s) ==
  /\ \E i \in DOMAIN registry : registry[i] = s /\ registry' = RemoveAt(registry, i)
  /\ removed' = removed \cup {s}
  /\ listing' = [c \in Clients |-> [listing[c] EXCEPT !.since = {}]]

Page(offset) ==
  LET end == IF offset + PageSize < Len(registry) THEN offset + PageSize ELSE Len(registry)
  IN [servers |-> ToSet(SubSeq(registry, offset + 1, end)),
      nextOffset |-> IF end < Len(registry) THEN end ELSE 0]

-----------------------------------------------------------------------------
StartListing(c) == listing' = [listing EXCEPT ![c] = Begins("rpc")]

(* Mutants: the servers of the page replace those before it; an offset of    *)
(* zero is one more page.                                                    *)
PageOnly(allServers, page) == page.servers
Pushed(allServers, page) == allServers \cup page.servers
HasOffset(page) == page.nextOffset >= 0
MorePages(page) == page.nextOffset > 0

(* A page arrives; after the last one the platform's own KAS is added.       *)
PageArrives(c) ==
  LET page == Page(listing[c].nextOffset)
      all == Pushed(listing[c].allServers, page)
      last == ~MorePages(page)
  IN /\ listing[c].at \in {"rpc", "legacy"}
     /\ listing' = [listing EXCEPT
          ![c].at = IF last THEN "listed" ELSE @,
          ![c].nextOffset = page.nextOffset,
          ![c].allServers = IF last THEN all \cup {platformKas} ELSE all]
     /\ UNCHANGED <<registry, removed>>

(* A request fails: everything starts again over HTTP, or the call fails.    *)
PageFails(c, hasAuthProvider) ==
  /\ listing[c].at \in {"rpc", "legacy"}
  /\ listing' = [listing EXCEPT
       ![c] = IF @.at = "rpc" /\ hasAuthProvider THEN Begins("legacy")
                                                ELSE [@ EXCEPT !.at = "failed"]]
  /\ UNCHANGED <<registry, removed>>

-----------------------------------------------------------------------------
(* No server is left out that was registered from the beginning of the       *)
(* listing to its end, wherever others are registered meanwhile, if none was *)
(* removed: offsets are those of a list that moves under the reader.         *)
AllowListComplete ==
  \A c \in Clients : listing[c].at = "listed" =>
    platformKas \in listing[c].allServers /\ listing[c].since \subseteq listing[c].allServers
=============================================================================
