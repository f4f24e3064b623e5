----------------------------- MODULE MCEnvelope -----------------------------
(* Six slices.  Files without damage, of every version, with or without     *)
(* system metadata, with assertions signed by the payload key or by keys of  *)
(* their own, two of them under one id; and readers with the right keys, a   *)
(* wrong one or none, who verify assertions or do not.  Files of one to      *)
(* three splits, with spare KASes and the sid of a missing one, under        *)
(* several lists.  Middleware on either side.  One part damaged in files of  *)
(* both versions, of no to two segments, and an assertion bound again, for   *)
(* readers with keys of the right algorithm, of another or none.  Every      *)
(* choice of the list.  And the calls of MCKeyUnwrap.                        *)
EXTENDS Envelope, MCKeyUnwrap

CONSTANTS noKey, noList, id1, id2, own, other, foreign

Step(kas_, sid) == [kas |-> kas_, sid |-> sid]
OneStep == <<Step(kas1, noSid)>>
TwoSplits == <<Step(kas1, sA), Step(kas2, sB), Step(kas3, sA)>>

Plans ==
  {OneStep, TwoSplits,
   <<Step(kas1, noSid), Step(kas2, emptySid)>>,
   <<Step(kas1, sA), Step(kas2, sB)>>,
   <<Step(kas1, noSid), Step(kas2, sB), Step(kas3, sA)>>,
   <<Step(kas1, sA), Step(kas2, emptySid), Step(kas1, sA)>>}

KeyOf(of, alg, part) == [of |-> of, alg |-> alg, part |-> part]
Config(id, statement, signingKey) ==
  [id |-> id, statement |-> statement, signingKey |-> signingKey]

Files ==
  [plan : {OneStep}, version : {"none", "4.2.2", "4.3.0", "other"},
   systemMetadata : BOOLEAN,
   assertionConfigs :
     {<<>>, <<Config(id1, 2, noKey)>>,
      <<Config(id1, 2, KeyOf(own, "ES256", "private")), Config(id2, 3, noKey)>>,
      <<Config(id1, 2, KeyOf(own, "ES256", "private")),
        Config(id1, 3, KeyOf(other, "ES256", "private"))>>,
      <<Config(id1, 2, KeyOf(own, "ES256", "public"))>>},
   segments : {0, 2}, keyMiddleware : {FALSE}]

File(plan, version, configs, segments, middleware) ==
  [plan |-> plan, version |-> version, systemMetadata |-> FALSE,
   assertionConfigs |-> configs, segments |-> segments, keyMiddleware |-> middleware]

NoKeys == [id \in {} |-> noKey]
KeyRings ==
  {NoKeys, [id \in {id1} |-> KeyOf(own, "ES256", "public")],
   [id \in {id1} |-> KeyOf(own, "ES256", "private")],
   [id \in {id1} |-> KeyOf(own, "RS256", "public")],
   [id \in {id2} |-> KeyOf(other, "ES256", "public")]}

Reader(keys, unverified) ==
  [allowList |-> noList, allowedKases |-> Kases, platformKases |-> noList,
   keyMiddleware |-> FALSE, noVerifyAssertions |-> unverified, Keys |-> keys]
Plain == Reader(NoKeys, FALSE)

Undamaged == [what |-> "none", place |-> 0]
Case(file_, damage_, reader_) == [file |-> file_, damage |-> damage_, reader |-> reader_]

Sealing ==
  {Case(f, Undamaged, Reader(keys, unverified)) :
     f \in Files, keys \in KeyRings, unverified \in BOOLEAN}

Splitting ==
  {Case(File(plan, "none", <<>>, 1, FALSE), Undamaged, [Plain EXCEPT !.allowedKases = list]) :
     plan \in Plans, list \in {Kases, {kas1, kas2}, {kas2, kas3}}}

Processing ==
  {Case(File(TwoSplits, "none", <<>>, segments, writes), Undamaged,
        [Plain EXCEPT !.keyMiddleware = reads]) :
     segments \in {0, 1}, writes \in BOOLEAN, reads \in BOOLEAN}

TwoAssertions == <<Config(id1, 2, KeyOf(own, "ES256", "private")), Config(id2, 3, noKey)>>
Damage(what, places) == {[what |-> what, place |-> place] : place \in places}
OwnKeys ==
  [id \in {id1, id2} |->
     IF id = id1 THEN KeyOf(own, "ES256", "public") ELSE KeyOf(other, "ES256", "public")]
Damaging ==
  {Case(File(TwoSplits, version, TwoAssertions, segments, FALSE), damage_,
        Reader([id \in {id1} |-> KeyOf(own, "ES256", "public")], unverified)) :
     version \in {"none", "4.2.2", "other"}, segments \in {2},
     damage_ \in UNION {Damage("version", {0}), Damage("root", {0}), Damage("order", {0}),
                        Damage("share", 1 .. 3), Damage("hash", {1, 2}),
                        Damage("segment", {1, 2}), Damage("tag", {1, 2}),
                        Damage("statement", {1, 2}), Damage("binding", {1, 2})},
     unverified \in BOOLEAN}
  \cup
  {Case(File(TwoSplits, version, TwoAssertions, 1, FALSE), damage_, Reader(keys, FALSE)) :
     version \in {"none", "4.2.2"}, damage_ \in Damage("rebound", {1, 2}),
     keys \in KeyRings \cup {OwnKeys}}
  \cup
  {Case(File(TwoSplits, version, <<>>, 0, FALSE), damage_, Plain) :
     version \in {"4.3.0", "4.2.2", "other"},
     damage_ \in UNION {Damage("version", {0}), Damage("root", {0}), Damage("share", 1 .. 3)}}

(* The constructor refuses a list without the KAS of the client.             *)
Lists == {noList, {}, {kas1}}
ListsOfClient == {noList, {kas1}, {kas1, kas2}}
Listing ==
  {Case(File(OneStep, "none", <<>>, 1, FALSE), Undamaged,
        [Plain EXCEPT !.allowList = own_, !.allowedKases = clients, !.platformKases = known]) :
     own_ \in Lists, clients \in ListsOfClient, known \in Lists}

MCCases == Sealing \cup Splitting \cup Processing \cup Damaging \cup Listing
MCCalls == UnwrapCalls \cup {OpeningOf(c) : c \in MCCases}

(* The sixth slice: a call of unwrapKey alone.                               *)
Aloof == Case(File(OneStep, "none", <<>>, 0, FALSE), Undamaged, Plain)
UnwrapInit ==
  /\ case = Aloof
  /\ Init
  /\ call \in UnwrapCalls
  /\ at = "alone"
  /\ assertions = <<>>
  /\ verified = 0
  /\ delivered = 0
UnwrapAlone == at = "alone" /\ Next /\ UNCHANGED <<at, sealVars, openVars>>

MCInit == EnvelopeInit \/ UnwrapInit
MCNext == EnvelopeNext \/ UnwrapAlone
MCSpec == MCInit /\ [][MCNext]_envelopeVars /\ WF_envelopeVars(MCNext)
=============================================================================
