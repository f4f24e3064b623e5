------------------------------ MODULE Encrypt ------------------------------
(***************************************************************************)
(* Client.encrypt of lib/tdf3/src/client/index.ts up to the key access       *)
(* objects, with the client's cache of KAS public keys.  Several calls run   *)
(* at once on one client: they share the cache and, when the application     *)
(* passes the same object twice, the scope, whose arrays a call completes in *)
(* place.  An action is what a call does from one await to the next.         *)
(*                                                                         *)
(* The platform's answers are external: the attribute values it knows, the   *)
(* base key it may publish for a KAS, and the key the KAS itself publishes.  *)
(* PEMs are well-formed, so parsing one succeeds at once.                    *)
(***************************************************************************)
EXTENDS GrantPlan, FiniteSetsExt

CONSTANTS
  Scenarios,   (* what may be asked, of what platform                         *)
  Absent,      (* undefined                                                   *)
  OwnKid       (* the kid of the key a KAS publishes itself                   *)

(* The platform's attributes are a policy, of which the application has some *)
(* values; a KAS has one key of a kid; undefined is not an array.            *)
MappedBy(directory) ==
  UNION {UNION {ToSet(directory[fqn].kasKeys[i]) : i \in DOMAIN directory[fqn].kasKeys} :
         fqn \in DOMAIN directory}

IsScenario(s) ==
  /\ IsPolicy({s.directory[fqn] : fqn \in DOMAIN s.directory})
  /\ \A fqn \in DOMAIN s.directory : s.directory[fqn].fqn = fqn
  /\ \A g \in MappedBy(s.directory) : g.kind = "mapped" => g.keys[1].kid # Absent
  /\ \A g, h \in MappedBy(s.directory) :
       g.kind = "mapped" /\ h.kind = "mapped" /\ g.url = h.url
         /\ g.keys[1].kid = h.keys[1].kid => g.keys[1] = h.keys[1]
  /\ s.known \subseteq DOMAIN s.directory
  /\ Absent \notin Seq(DOMAIN s.directory)
  /\ \A i \in DOMAIN s.scopes :
       /\ DOMAIN s.scopes[i] = {"attributes", "attributeValues"}
       /\ s.scopes[i].attributes = Absent \/ IsSequence(s.scopes[i].attributes)
       /\ \/ s.scopes[i].attributeValues = Absent
          \/ s.scopes[i].attributeValues \in Seq(DOMAIN s.directory)
  /\ \A c \in DOMAIN s.requests :
       /\ s.requests[c].scope \in DOMAIN s.scopes
       /\ s.requests[c].splitPlan = Absent \/ IsSequence(s.requests[c].splitPlan)

ASSUME ScenarioAssumption == \A s \in Scenarios : IsScenario(s)

VARIABLES
  scenario,    (* the one of this behaviour                                   *)
  scope,       (* the applications' scope objects                             *)
  cache,       (* kasKeyInfoCache                                             *)
  call         (* the calls of encrypt                                        *)

vars == <<scenario, scope, cache, call>>

Calls == DOMAIN scenario.requests
Request(c) == scenario.requests[c]
ScopeOf(c) == scope[Request(c).scope]
Value(fqn) == scenario.directory[fqn]
ValuesOf(fqns) == [i \in DOMAIN fqns |-> Value(fqns[i])]
Given(list) == IF list = Absent THEN <<>> ELSE list

-----------------------------------------------------------------------------
(* The condition of findEntryInCache.  Mutants: any key of the KAS will do;  *)
(* a key that is being fetched is not found.                                 *)
AnyKidMatches(entry, ask) == entry.kas = ask.kas /\ entry.alg = ask.alg
SettledMatches(entry, ask) ==
  /\ entry.kas = ask.kas /\ entry.alg = ask.alg /\ entry.state = "resolved"
  /\ ask.kid # Absent => entry.kid = ask.kid
Matches(entry, ask) ==
  /\ entry.kas = ask.kas
  /\ entry.alg = ask.alg
  /\ ask.kid # Absent => entry.kid = ask.kid

Found(ask) == {e \in DOMAIN cache : Matches(cache[e], ask)}

Place(ask) == IF Found(ask) # {} THEN Min(Found(ask)) ELSE Len(cache) + 1

NewEntry(ask, promise) ==
  [kas |-> ask.kas, alg |-> ask.alg, kid |-> ask.kid,
   state |-> promise.state, key |-> promise.key]

(* findEntryInCache, which returns the first entry, in fetchKasKeyWithCache  *)
(* and putKasKeyIntoCache; they differ in the promise they push.  r is the   *)
(* record of a call that goes on to await it.                                *)
AwaitEntry(c, r, ask, promise) ==
  /\ cache' = IF Found(ask) # {} THEN cache ELSE Append(cache, NewEntry(ask, promise))
  /\ call' = [call EXCEPT ![c] = [r EXCEPT !.entry = Place(ask)]]

Pending == [state |-> "pending", key |-> Absent]
Resolved(key) == [state |-> "resolved", key |-> key]

Fetch(c, r, ask) == AwaitEntry(c, r, ask, Pending)

Put(c, r, holder) ==
  LET key == holder.keys[1]
  IN AwaitEntry(c, r, [kas |-> holder.url, alg |-> key.declared, kid |-> key.kid],
                Resolved([url |-> holder.url, kid |-> key.kid]))

Goes(c, r) == call' = [call EXCEPT ![c] = r] /\ UNCHANGED cache
Fails(c, r, error) == Goes(c, [r EXCEPT !.stage = "failed", !.error = error])

-----------------------------------------------------------------------------
(* The items of a split plan: a key to look up, or the keys enclosed in the  *)
(* grant.  kas is who was granted; a sid that is absent is ''.  A key of an  *)
(* unknown case is not looked up: the call fails when it gets there.         *)
Lookup(kas, sid, ask) == [kas |-> kas, sid |-> sid, ask |-> ask, keys |-> <<>>]

(* Where a granter's key is to be had.                                       *)
KeyPlace(kas) == IF kas.kind \in {"bare", "remote"} THEN kas.source ELSE kas.url

ItemOf(step, alg) ==
  LET kas == step.kas
  IN CASE kas.kind = "mapped" ->
            Lookup(kas, step.sid, [kas |-> KeyPlace(kas), alg |-> kas.keys[1].alg,
                                   kid |-> kas.keys[1].kid])
       [] kas.kind \in {"bare", "remote", "unknown"} ->
            Lookup(kas, step.sid, [kas |-> KeyPlace(kas), alg |-> alg, kid |-> Absent])
       [] kas.kind = "cached" ->
            [kas |-> kas, sid |-> step.sid, ask |-> Absent, keys |-> kas.keys]

Bare(url) == [kind |-> "bare", url |-> url, source |-> url, keys |-> <<>>]

DefaultItem(c) ==
  Lookup(Bare(Request(c).kas), 0,
         [kas |-> Request(c).kas, alg |-> Request(c).alg, kid |-> Absent])

(* Without a split the key goes to the default KAS.                          *)
Items(c, steps) == IF steps = <<>> THEN <<DefaultItem(c)>> ELSE steps

GivenItems(c) ==
  LET steps == Request(c).splitPlan
  IN [i \in DOMAIN steps |->
        Lookup(Bare(steps[i].kas), steps[i].sid,
               [kas |-> steps[i].kas, alg |-> Request(c).alg, kid |-> steps[i].kid])]

PlannedItems(c, steps) == [i \in DOMAIN steps |-> ItemOf(steps[i], Request(c).alg)]

Wrapped(item) ==
  [k \in DOMAIN item.keys |->
     [url |-> item.kas.url, kid |-> item.keys[k].kid, sid |-> item.sid]]

IsLookup(item) == item.keys = <<>>
NextLookup(items, from) == SelectInSubSeq(items, from, Len(items), IsLookup)

Enclosed(items, from, to) ==
  FlattenSeq([i \in 1 .. to - from |-> Wrapped(items[from + i - 1])])

IsUnknown(item) == item.kas.kind = "unknown"

(* The loop over the items from number at to the next lookup.  (Here and     *)
(* below, \E over a singleton names a value that TLC is to compute once.)    *)
RunItems(c, r, items, at) ==
  \E lookup \in {NextLookup(items, at)} :
    IF lookup = 0
      THEN Goes(c, [r EXCEPT !.stage = "done", !.items = items,
                       !.keyAccess = @ \o Enclosed(items, at, Len(items) + 1)])
    ELSE IF IsUnknown(items[lookup])
      THEN Fails(c, r, "keyType")
      ELSE Fetch(c, [r EXCEPT !.stage = "items", !.items = items, !.at = lookup,
                       !.keyAccess = @ \o Enclosed(items, at, lookup)],
                 items[lookup].ask)

StartItems(c, r, steps) ==
  \E items \in {Items(c, steps)} : RunItems(c, r, items, 1)

(* The keys of all values go into the cache one by one; then the plan.       *)
EffectiveKeys(values) ==
  FlattenSeq([i \in DOMAIN values |-> Mappings(values[i])])

HasNoAttribute(value) == value.attribute = Absent

RunEffectiveKeys(c, r, fqns) ==
  \E values \in {ValuesOf(fqns)} : \E keys \in {EffectiveKeys(values)} :
    IF r.at <= Len(keys)
      THEN Put(c, [r EXCEPT !.stage = "effective"], keys[r.at])
    ELSE IF \E value \in ToSet(values) : HasNoAttribute(value)
      THEN Fails(c, r, "attribute")
      ELSE \E clauses \in {Clauses(values)} : \E steps \in {simplify(clauses)} :
             StartItems(c, [r EXCEPT !.planned = fqns], PlannedItems(c, steps))

Complete(r, fqns) ==
  Len(r.fqns) = Len(fqns) /\ ToSet(r.fqns) \subseteq ToSet(fqns)

CheckValues(c, r, fqns) ==
  IF Complete(r, fqns)
    THEN RunEffectiveKeys(c, [r EXCEPT !.at = 1], fqns)
    ELSE Fails(c, r, "mismatch")

-----------------------------------------------------------------------------
(* asPolicy: the attributes the policy of the file names.                    *)
asPolicy(s) == ToSet(IF s.attributeValues # Absent THEN s.attributeValues
                     ELSE Given(s.attributes))

EveryFqn(fqns, given) == ToSet(fqns)   (* mutant: values at hand are fetched again *)
FqnsWithoutValues(fqns, given) == ToSet(fqns) \ ToSet(given)

(* autoconfigure, up to the request for the values that are missing.         *)
Autoconfigure(c, r) ==
  LET given == Given(ScopeOf(c).attributeValues)
      fqns == IF ScopeOf(c).attributes = Absent THEN given ELSE ScopeOf(c).attributes
      missing == FqnsWithoutValues(fqns, given)
      there == [r EXCEPT !.fqns = fqns, !.missing = missing]
  IN /\ scope' = [scope EXCEPT ![Request(c).scope].attributes = fqns]
     /\ IF missing = {} THEN CheckValues(c, there, given)
        ELSE IF ~Request(c).hasPlatform THEN Fails(c, there, "platformUrl")
        ELSE Goes(c, [there EXCEPT !.stage = "hydrating"])

Prepare(c, r) ==
  LET there == [r EXCEPT !.policy = asPolicy(ScopeOf(c))]
  IN CASE Request(c).splitPlan # Absent ->
            StartItems(c, there, GivenItems(c)) /\ UNCHANGED scope
       [] Request(c).splitPlan = Absent /\ Request(c).autoconfigure ->
            Autoconfigure(c, there)
       [] OTHER -> StartItems(c, there, <<>>) /\ UNCHANGED scope

OwnKeys(values) == FlattenSeq([i \in DOMAIN values |-> Published(values[i].kasKeys[1])])

(* The loop over the keys that come with the scope's own values.             *)
RunOwnKeys(c, r) ==
  \E keys \in {OwnKeys(ValuesOf(Given(ScopeOf(c).attributeValues)))} :
    IF r.at <= Len(keys)
      THEN Put(c, [r EXCEPT !.stage = "own"], keys[r.at]) /\ UNCHANGED scope
      ELSE Prepare(c, r)

(* The session keys are there.                                               *)
Start(c) ==
  /\ call[c].stage = "new"
  /\ RunOwnKeys(c, [call[c] EXCEPT !.at = 1])
  /\ UNCHANGED scenario

(* attributeFQNsAsValues returns the values the platform knows of those that *)
(* were missing; they are added to the scope's own array, if it has one.     *)
Hydrated(c) ==
  LET got == SetToSeq(call[c].missing \cap scenario.known)
      fqns == Given(ScopeOf(c).attributeValues) \o got
  IN /\ call[c].stage = "hydrating"
     /\ scope' = IF ScopeOf(c).attributeValues = Absent THEN scope
                 ELSE [scope EXCEPT ![Request(c).scope].attributeValues = fqns]
     /\ CheckValues(c, [call[c] EXCEPT !.fetched = got], fqns)
     /\ UNCHANGED scenario

HydrationFails(c) ==
  /\ call[c].stage = "hydrating"
  /\ Fails(c, call[c], "platform")
  /\ UNCHANGED <<scenario, scope>>

ValuesNow(c) ==
  IF ScopeOf(c).attributeValues = Absent THEN call[c].fetched
  ELSE ScopeOf(c).attributeValues

WaitsForKey(c) == call[c].stage \in {"own", "effective", "items"}
Entry(c) == cache[call[c].entry]

(* The key a call waits for is there: on to the next one.                    *)
KeyArrives(c) ==
  LET r == [call[c] EXCEPT !.at = @ + 1]
      object == [url |-> Entry(c).key.url, kid |-> Entry(c).key.kid,
                 sid |-> call[c].items[call[c].at].sid]
  IN /\ WaitsForKey(c)
     /\ Entry(c).state = "resolved"
     /\ CASE call[c].stage = "own" -> RunOwnKeys(c, r)
          [] call[c].stage = "effective" ->
               RunEffectiveKeys(c, r, ValuesNow(c)) /\ UNCHANGED scope
          [] call[c].stage = "items" ->
               RunItems(c, [r EXCEPT !.keyAccess = Append(@, object)], r.items, r.at) /\ UNCHANGED scope
     /\ UNCHANGED scenario

StillPending(entry) == entry.state = "pending"   (* mutant: nobody is told *)
IsRejected(entry) == entry.state = "rejected"

(* The rejected promise stays in the cache.                                  *)
KeyRefused(c) ==
  /\ WaitsForKey(c)
  /\ IsRejected(Entry(c))
  /\ Fails(c, call[c], "key")
  /\ UNCHANGED <<scenario, scope>>

-----------------------------------------------------------------------------
(* fetchKasPubKey: the platform's base key for the KAS, whatever KAS that    *)
(* names, else the key of the KAS itself, from the newer or from the older   *)
(* of its two interfaces.  The kid that was asked for plays no part.         *)
OwnKey(ask) == [url |-> ask.kas, kid |-> OwnKid]

Fetched(e) ==
  /\ cache[e].state = "pending"
  /\ \E key \in {scenario.baseKey[cache[e].kas], OwnKey(cache[e])} \ {Absent} :
       cache' = [cache EXCEPT ![e].state = "resolved", ![e].key = key]
  /\ UNCHANGED <<scenario, scope, call>>

FetchFails(e) ==
  /\ scenario.lossy
  /\ cache[e].state = "pending"
  /\ cache' = [cache EXCEPT ![e].state = "rejected"]
  /\ UNCHANGED <<scenario, scope, call>>

Init ==
  /\ scenario \in Scenarios
  /\ scope = scenario.scopes
  /\ cache = <<>>
  /\ call = [c \in Calls |->
       [stage |-> "new", at |-> 1, entry |-> 0, policy |-> {}, fqns |-> <<>>,
        missing |-> {}, fetched |-> <<>>, planned |-> <<>>, items |-> <<>>,
        keyAccess |-> <<>>, error |-> "none"]]

CallStep(c) ==
  Start(c) \/ Hydrated(c) \/ HydrationFails(c) \/ KeyArrives(c) \/ KeyRefused(c)

Network == \E e \in DOMAIN cache : Fetched(e) \/ FetchFails(e)

Next == (\E c \in Calls : CallStep(c)) \/ Network

Spec == Init /\ [][Next]_vars

(* Callbacks run, and a request ends one way or another.                     *)
FairSpec == Spec /\ WF_vars(\E c \in Calls : CallStep(c)) /\ WF_vars(Network)

-----------------------------------------------------------------------------
HasPlan(c) ==
  /\ call[c].stage \in {"items", "done"}
  /\ Request(c).splitPlan = Absent /\ Request(c).autoconfigure
AllKases == DOMAIN scenario.baseKey

(* The splits of an autoconfigured file say what the rules of its attributes *)
(* say: whatever KASes somebody has access to, they can open every split if  *)
(* and only if they satisfy every attribute, shared and repeated granters    *)
(* and values without a granter included.                                    *)
PlanImplementsPolicy ==
  \A c \in Calls : HasPlan(c) =>
    LET values == ValuesOf(call[c].planned)
        steps == plan(values)
    IN \A kases \in SUBSET AllKases : Satisfies(kases, values) <=> Opens(kases, steps)

(* The KASes that may come to hold the key wrapped for an item: the one it   *)
(* names, or the one whose base key its platform publishes.                  *)
HoldersFor(item) ==
  IF ~IsLookup(item) THEN {item.kas.url}
  ELSE {item.ask.kas} \cup {key.url : key \in {scenario.baseKey[item.ask.kas]} \ {Absent}}

AskedByHand(ask) ==
  \E c \in Calls : LET steps == Given(Request(c).splitPlan)
                   IN \E i \in DOMAIN steps : steps[i].kas = ask.kas /\ steps[i].kid = ask.kid

IsFor(object, item) ==
  /\ object.sid = item.sid
  /\ object.url \in HoldersFor(item)
  /\ (item.kas.kind = "mapped" /\ item.kas.keys[1].declared = item.kas.keys[1].alg
        /\ ~AskedByHand(item.ask))
       => object.kid = item.kas.keys[1].kid

(* Whatever calls share the cache and in whatever order its promises settle, *)
(* every split of a finished call has a key access object for each KAS that  *)
(* was planned, and no other.  A key mapping of the policy is wrapped with   *)
(* the very key it names, if the policy declares its algorithm and no call   *)
(* has asked for that kid by hand.                                           *)
WrappedForThePlan ==
  \A c \in Calls : call[c].stage = "done" =>
    LET items == ToSet(call[c].items)
        objects == ToSet(call[c].keyAccess)
    IN /\ \A item \in items : \E object \in objects : IsFor(object, item)
       /\ \A object \in objects : \E item \in items : IsFor(object, item)

(* A KAS is asked for a key once, by however many calls it is needed: no     *)
(* entry of the cache would have been found in the place of a later one.     *)
KeysFetchedOnce ==
  \A e, f \in DOMAIN cache : e < f => ~Matches(cache[e], cache[f])

(* "Attribute mismatch" means that the platform does not know an attribute,  *)
(* that the scope has values for attributes it does not list or lists one,   *)
(* or has its value, twice, or that another call may have completed the same *)
(* scope.                                                                    *)
MismatchIsExplained ==
  \A c \in Calls : call[c].error = "mismatch" =>
    LET asked == scenario.scopes[Request(c).scope]
    IN \/ ~ call[c].missing \subseteq scenario.known
       \/ ~ ToSet(Given(asked.attributeValues)) \subseteq ToSet(call[c].fqns)
       \/ ~ IsInjective(call[c].fqns)
       \/ ~ IsInjective(Given(asked.attributeValues))
       \/ \E d \in Calls \ {c} : Request(d).scope = Request(c).scope

(* Decryption refuses a file with one KAS twice in a split (DuplicateUrl of  *)
(* KeyUnwrap).  An autoconfigured file is such a file only if its policy     *)
(* grants that KAS, or its key for another, twice for one value, or for two  *)
(* values of an anyOf attribute, or if a KAS of the file hands out a base    *)
(* key of that KAS: splits that a KAS is in for different attributes stay    *)
(* apart.                                                                    *)
GrantedTwice(values, url) ==
  \E sid \in DOMAIN Clauses(values) :
    LET steps == StepsOf(sid, Clauses(values)[sid])
    IN Cardinality({i \in DOMAIN steps : KeyPlace(steps[i].kas) = url}) > 1

HandsOut(item, url) == IsLookup(item) /\ url \in HoldersFor(item) \ {item.ask.kas}

RepetitionIsExplained ==
  \A c \in Calls : call[c].stage = "done" /\ HasPlan(c) =>
    \A i, j \in DOMAIN call[c].keyAccess :
      LET first == call[c].keyAccess[i]
          second == call[c].keyAccess[j]
      IN i < j /\ first.sid = second.sid /\ first.url = second.url =>
           \/ GrantedTwice(ValuesOf(call[c].planned), first.url)
           \/ \E item \in ToSet(call[c].items) : HandsOut(item, first.url)

(* Every call ends, also behind a key that somebody else asked for.          *)
EncryptEnds == <>(\A c \in Calls : call[c].stage \in {"done", "failed"})

(* What the test of hydration says: the policy of the file includes every    *)
(* attribute that its keys were split for.                                   *)
PolicyNamesEveryAttribute ==
  \A c \in Calls : call[c].stage = "done" /\ HasPlan(c) =>
    call[c].policy = ToSet(call[c].planned)
=============================================================================
