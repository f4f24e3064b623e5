----------------------------- MODULE MCEncrypt -----------------------------
(* Two attributes.  The planning scenarios are of one call for three values, *)
(* two of them of one attribute, under every pair of rules, with every       *)
(* choice of granters from a small list, shared and nested ones included.    *)
(* The others have one set of attributes, and two calls at once on the same  *)
(* or on different scopes, each with or without a split plan or values of    *)
(* its own, while requests may fail.                                         *)
EXTENDS Encrypt

CONSTANTS kas1, kas2, kas3, kid1, kid2, attrA, attrB, a1, a2, b1, b2

Kases == {kas1, kas2, kas3}

Key(kid, declared) == [kid |-> kid, alg |-> "rsa", declared |-> declared]
Holder(kind, url, keys) == [kind |-> kind, url |-> url, source |-> url, keys |-> keys]
Mapped(url, kid) == Holder("mapped", url, <<Key(kid, "rsa")>>)
Undeclared(url, kid) == Holder("mapped", url, <<Key(kid, Absent)>>)
Unpublished(url) == Holder("unpublished", url, <<>>)
Remote(url, source) == [Bare(url) EXCEPT !.kind = "remote", !.source = source]
Unknown(url) == [Bare(url) EXCEPT !.kind = "unknown"]
Cached(url) == Holder("cached", url, <<Key(kid1, "rsa"), Key(kid2, "rsa")>>)

Val(fqn, attribute, rule, kasKeys, grants) ==
  [fqn |-> fqn, attribute |-> attribute, rule |-> rule,
   kasKeys |-> kasKeys, grants |-> grants]

Scope(attributes, attributeValues) ==
  [attributes |-> attributes, attributeValues |-> attributeValues]
Req(scope_, autoconfigure, splitPlan) ==
  [scope |-> scope_, autoconfigure |-> autoconfigure, splitPlan |-> splitPlan,
   alg |-> "rsa", kas |-> kas1, hasPlatform |-> TRUE]

NoBaseKey == [k \in Kases |-> Absent]
OneBaseKey == [k \in Kases |-> IF k = kas2 THEN [url |-> kas3, kid |-> kid2] ELSE Absent]

(* The granters of one value: mappings and grants of its own, and what its   *)
(* namespace has.                                                            *)
Lists(own, granted, namespaceGrants) ==
  [kasKeys |-> <<own, <<>>, <<>>>>, grants |-> <<granted, <<>>, namespaceGrants>>]

SomeLists ==
  {Lists(<<>>, <<>>, <<>>),
   Lists(<<Mapped(kas1, kid1)>>, <<>>, <<>>),
   Lists(<<>>, <<Bare(kas1)>>, <<>>),
   Lists(<<>>, <<Cached(kas3), Bare(kas1)>>, <<>>)}

MoreLists ==
  SomeLists \cup
  {Lists(<<Mapped(kas2, kid1), Mapped(kas2, kid2)>>, <<Bare(kas1)>>, <<Bare(kas3)>>),
   Lists(<<Unpublished(kas3)>>, <<>>, <<Bare(kas2)>>)}

Planning ==
  {[requests |-> <<Req(1, TRUE, Absent)>>,
    scopes |-> <<Scope(Absent, <<a1, a2, b1>>)>>,
    directory |-> (a1 :> Val(a1, attrA, ruleA, l1.kasKeys, l1.grants))
               @@ (a2 :> Val(a2, attrA, ruleA, l2.kasKeys, l2.grants))
               @@ (b1 :> Val(b1, attrB, ruleB, l3.kasKeys, l3.grants)),
    known |-> {}, baseKey |-> NoBaseKey, lossy |-> FALSE] :
   ruleA \in {"unspecified", "anyOf", "hierarchy"}, ruleB \in {"allOf", "anyOf"},
   l1 \in MoreLists, l2 \in MoreLists, l3 \in SomeLists}

Directory ==
     (a1 :> Val(a1, attrA, "anyOf", <<<<Mapped(kas1, kid1)>>, <<>>, <<>>>>, <<<<>>, <<>>, <<>>>>))
  @@ (a2 :> Val(a2, attrA, "anyOf", <<<<Mapped(kas1, kid2)>>, <<>>, <<>>>>, <<<<>>, <<>>, <<>>>>))
  @@ (b2 :> Val(b2, attrB, "allOf", <<<<>>, <<>>, <<>>>>, <<<<Remote(kas2, kas3), Bare(kas3)>>, <<>>, <<>>>>))
  @@ (b1 :> Val(b1, attrB, "allOf", <<<<>>, <<>>, <<Undeclared(kas2, kid2)>>>>,
                <<<<>>, <<>>, <<>>>>))

SharedScopes ==
  {Scope(<<a1, a2, b1>>, Absent), Scope(<<a1, b1>>, <<a1>>), Scope(Absent, <<a1, a2>>),
   Scope(<<a1, a2>>, <<b1>>), Scope(<<b2, b1>>, Absent)}

SecondRequests ==
  {Req(s, TRUE, Absent) : s \in {1, 2}} \cup
  {Req(2, FALSE, Absent),
   [Req(2, TRUE, Absent) EXCEPT !.alg = Absent],
   Req(2, TRUE, <<[kas |-> kas1, kid |-> kid1, sid |-> 1], [kas |-> kas2, kid |-> Absent, sid |-> 2]>>)}

Concurrent ==
  {[requests |-> <<Req(1, TRUE, Absent), second>>,
    scopes |-> <<scope1, Scope(<<b1, a2>>, Absent)>>,
    directory |-> Directory, known |-> known, baseKey |-> baseKey, lossy |-> TRUE] :
   second \in SecondRequests, scope1 \in SharedScopes,
   known \in {{a1, a2, b1, b2}, {a1, b1}}, baseKey \in {NoBaseKey, OneBaseKey}}

NoPlatform ==
  {[requests |-> <<[Req(1, TRUE, Absent) EXCEPT !.hasPlatform = FALSE]>>,
    scopes |-> <<Scope(<<a1>>, Absent)>>,
    directory |-> Directory, known |-> {}, baseKey |-> NoBaseKey, lossy |-> FALSE]}

(* The application has the value of an attribute twice.                      *)
GivenTwice ==
  {[requests |-> <<Req(1, TRUE, Absent)>>,
    scopes |-> <<Scope(attributes, <<twice, a2, twice>>)>>,
    directory |-> Directory, known |-> {}, baseKey |-> NoBaseKey, lossy |-> FALSE] :
   attributes \in {Absent, <<a1, a2>>}, twice \in {a1, b2}}

(* A value without an attribute, and a grant whose key is of neither case.   *)
Unplannable ==
  {[requests |-> <<Req(1, TRUE, Absent)>>, scopes |-> <<Scope(Absent, <<a1, b1>>)>>,
    directory |-> (a1 :> Val(a1, attrA, "anyOf", l.kasKeys, l.grants))
               @@ (b1 :> Val(b1, attribute, "anyOf", <<<<>>, <<>>, <<>>>>,
                             <<<<Cached(kas2), Unknown(kas1)>>, <<>>, <<>>>>)),
    known |-> {}, baseKey |-> NoBaseKey, lossy |-> FALSE] :
   attribute \in {attrA, attrB, Absent}, l \in SomeLists}

MCScenarios == Planning \cup Concurrent \cup NoPlatform \cup GivenTwice \cup Unplannable

(* The application has the values of some attributes only.                   *)
PartialScope ==
  {[requests |-> <<Req(1, TRUE, Absent)>>,
    scopes |-> <<Scope(<<a1, b1>>, <<a1>>)>>,
    directory |-> Directory, known |-> {a1, a2, b1, b2}, baseKey |-> NoBaseKey, lossy |-> FALSE]}
=============================================================================
