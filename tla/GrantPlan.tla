----------------------------- MODULE GrantPlan -----------------------------
(***************************************************************************)
(* plan and simplify of lib/src/policy/granter.ts with effectiveKasKeys of   *)
(* kas-keys.ts: from the attribute values of a policy to the key splits of a *)
(* file.  The key is an "and" of splits, a split an "or" of KASes.           *)
(*                                                                         *)
(* A value is a record with its fqn, attribute, rule, and two sequences,     *)
(* kasKeys and grants, each with the list of the value, of its attribute and *)
(* of the namespace.  The lists hold key holders: of kind "mapped" (a KAS    *)
(* key; "unpublished" when its public key is missing), or KASes granted with *)
(* keys enclosed ("cached"), a place to get one ("remote"), nothing ("bare") *)
(* or a key of neither case ("unknown").  A key has a kid, its algorithm,    *)
(* and the algorithm the policy declares for it.  A "cached" granter         *)
(* encloses at least one key.                                                *)
(***************************************************************************)
EXTENDS Naturals, FiniteSets, Sequences, SequencesExt

(* The most specific list that is not empty.                                 *)
MostSpecific(lists) ==
  LET full == {i \in DOMAIN lists : lists[i] # <<>>}
  IN IF full = {} THEN <<>> ELSE lists[Min(full)]

effectiveKasKeys(value) == MostSpecific(value.kasKeys)

(* Filters are flattened sequences of what there is at each place.           *)
When(condition, list) == IF condition THEN list ELSE <<>>

Published(keys) ==
  FlattenSeq([i \in DOMAIN keys |-> When(keys[i].kind = "mapped", <<keys[i]>>)])

Mappings(value) == Published(effectiveKasKeys(value))

(* Key mappings come before grants.                                          *)
Granters(value) ==
  IF Mappings(value) # <<>> THEN Mappings(value) ELSE MostSpecific(value.grants)

(* The granters of an fqn are a set of objects.  A value that is there twice *)
(* grants by the same objects both times, but its mappings are copied.       *)
GrantersFor(values, fqn) ==
  LET same == {i \in DOMAIN values : values[i].fqn = fqn}
      Adds(i) == i \in same /\ (i = Min(same) \/ Mappings(values[i]) # <<>>)
  IN FlattenSeq([i \in DOMAIN values |-> When(Adds(i), Granters(values[i]))])

HierarchyAsAnyOf(rule) ==   (* mutant *)
  IF rule \in {"anyOf", "hierarchy"} THEN "anyOf" ELSE "allOf"
booleanOperatorFor(rule) == IF rule \in {"anyOf", "hierarchy"} THEN rule ELSE "allOf"

FirstOf(values, attribute) == Min({i \in DOMAIN values : values[i].attribute = attribute})
AttributesOf(values) ==
  FlattenSeq([i \in DOMAIN values |->
                When(FirstOf(values, values[i].attribute) = i, <<values[i].attribute>>)])

(* The clauses of one attribute: the granters of each value, those of all    *)
(* values in one clause for anyOf.  A value without granters has none.       *)
GrantedClauses(values, attribute) ==
  FlattenSeq([i \in DOMAIN values |->
                When(values[i].attribute = attribute /\ Granters(values[i]) # <<>>,
                     <<GrantersFor(values, values[i].fqn)>>)])

ClausesOf(values, attribute) ==
  LET each == GrantedClauses(values, attribute)
  IN IF booleanOperatorFor(values[FirstOf(values, attribute)].rule) = "anyOf"
       THEN When(each # <<>>, <<FlattenSeq(each)>>)
       ELSE each

Clauses(values) ==
  LET attributes == AttributesOf(values)
  IN FlattenSeq([i \in DOMAIN attributes |-> ClausesOf(values, attributes[i])])

(* The name a clause has in the conjunction, as a bag: its parts are sorted. *)
NameOf(holder) ==
  IF holder.kind = "mapped" THEN <<holder.url, holder.keys[1].kid>> ELSE <<holder.url>>
keyFor(granters) ==
  [name \in {NameOf(granters[i]) : i \in DOMAIN granters} |->
     Cardinality({i \in DOMAIN granters : NameOf(granters[i]) = name})]

(* One step for a granter, or one for each key that comes with it.           *)
StepsOf(sid, granters) ==
  FlattenSeq([i \in DOMAIN granters |->
    IF granters[i].kind = "cached"
      THEN [k \in DOMAIN granters[i].keys |-> [sid |-> sid, kas |-> granters[i]]]
      ELSE <<[sid |-> sid, kas |-> granters[i]]>>])

(* The code sorts the names and counts; a split is called by the place of    *)
(* its clause here (mutant: it does not count).                              *)
NotCounted(place) == 1
SplitName(place) == place

(* Of clauses with one name the last is kept.                                *)
simplify(clauses) ==
  LET Kept(i) == \A j \in i + 1 .. Len(clauses) : keyFor(clauses[j]) # keyFor(clauses[i])
  IN FlattenSeq([i \in DOMAIN clauses |->
                   IF Kept(i) THEN StepsOf(SplitName(i), clauses[i]) ELSE <<>>])

plan(values) == simplify(Clauses(values))

-----------------------------------------------------------------------------
(* The values of a policy are well-formed; its attributes have one rule, and *)
(* a value that is there twice is the same value.                            *)
IsSequence(s) == s \in Seq(ToSet(s))

IsHolder(holder, kinds) ==
  /\ holder.kind \in kinds
  /\ holder.kind = "cached" => IsSequence(holder.keys) /\ holder.keys # <<>>
GrantKind == {"bare", "remote", "cached", "unknown"}

HoldsOnly(lists, kinds) ==
  /\ IsSequence(lists)
  /\ \A i \in DOMAIN lists :
       IsSequence(lists[i]) /\ \A k \in DOMAIN lists[i] : IsHolder(lists[i][k], kinds)

IsPolicy(policy) ==
  /\ \A value \in policy : /\ HoldsOnly(value.kasKeys, {"mapped", "unpublished"})
                           /\ HoldsOnly(value.grants, GrantKind)
  /\ \A v, w \in policy : /\ v.attribute = w.attribute => v.rule = w.rule
                          /\ v.fqn = w.fqn => v = w

(* What the policy asks of a set of KASes, read off its rules: a KAS for     *)
(* every granted value, or for some granted value of an anyOf attribute.     *)
Granted(values, attribute) ==
  {i \in DOMAIN values : values[i].attribute = attribute /\ Granters(values[i]) # <<>>}

Helps(value, kases) ==
  \E k \in DOMAIN Granters(value) : Granters(value)[k].url \in kases

Satisfies(kases, values) ==
  \A attribute \in {values[i].attribute : i \in DOMAIN values} :
    LET granted == Granted(values, attribute)
        anyOf == \E i \in granted : values[i].rule = "anyOf"
    IN IF anyOf THEN \E i \in granted : Helps(values[i], kases)
                ELSE \A i \in granted : Helps(values[i], kases)

(* A plan opens for a set of KASes when each of its splits names one.        *)
Opens(kases, steps) ==
  \A i \in DOMAIN steps :
    \E j \in DOMAIN steps : steps[j].sid = steps[i].sid /\ steps[j].kas.url \in kases
=============================================================================
