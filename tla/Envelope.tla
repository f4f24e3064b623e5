------------------------------ MODULE Envelope ------------------------------
(***************************************************************************)
(* What a TDF is sealed with and how it is opened.  The manifest of          *)
(* writeStream (lib/tdf3/src/tdf.ts): shares, version, hashes, root          *)
(* signature, assertions (assertions.ts).  Between writing and reading one   *)
(* part of the file may be damaged.  Then Client.decrypt                     *)
(* (lib/tdf3/src/client/index.ts) with readStream and decryptStreamFrom: the *)
(* list of KASes, the key (KeyUnwrap), the assertions, the root signature,   *)
(* the segments in order.                                                    *)
(*                                                                         *)
(* Signatures and tags are records of what they were made from, with the key *)
(* for which they hold.  The two versions of the format encode them as hex   *)
(* digits or as bytes.  Segments are numbered; TdfWriter says how they are   *)
(* cut and PayloadStream how they are fetched.  A key is the owner of its    *)
(* material, the algorithm it is given with and the part it is.              *)
(***************************************************************************)
EXTENDS KeyUnwrap

CONSTANTS
  Cases,      (* a file, what is damaged, and its reader                      *)
  NoKey,      (* no signingKey: the key of the payload; no key in a header    *)
  Foreign,    (* who binds an assertion again, with a key in its header       *)
  NoList      (* an absent list of KASes                                      *)

VARIABLES
  case,       (* one of Cases                                                 *)
  assertions, (* signedAssertions                                             *)
  at,         (* where writer and reader are                                  *)
  verified,   (* the assertions that were verified                            *)
  delivered   (* the segments that were decrypted                             *)

sealVars == <<case, assertions>>
openVars == <<verified, delivered>>
envelopeVars == <<vars, sealVars, openVars, at>>

file == case.file
damage == case.damage
reader == case.reader
Damaged(what, place) == damage = [what |-> what, place |-> place]

(* Strings that are no part of the key: what a keyMiddleware adds, and what  *)
(* comes in the place of a damaged share.                                    *)
Middleware(applied, key) ==
  IF applied THEN bxor(key, {Len(file.plan) + 1}) ELSE key
Noise == {Len(file.plan) + 2}

keyForEncryption == Middleware(file.keyMiddleware, Key)

-----------------------------------------------------------------------------
(* The versions.                                                             *)
isTargetSpecLegacyTDF(version) == version = "4.2.2"

(* In _generateManifest; a manifest without a version is one of 4.2.2        *)
(* (mutant: of the current version).                                         *)
schemaVersion ==
  CASE file.version = "4.2.2" -> "none"
    [] file.version = "none" -> "4.3.0"
    [] OTHER -> file.version
CurrentVersion(version) == IF version = "none" THEN "4.3.0" ELSE version
specVersion(version) == IF version = "none" THEN "4.2.2" ELSE version

-----------------------------------------------------------------------------
(* The writer.  A segment is its number, under a key; 0 is no segment.       *)
Tag(key, segment) == [key |-> key, segment |-> segment]
Encrypted(segment) ==
  [segment |-> segment, tag |-> Tag(keyForEncryption, segment)]
SegmentHash(tag, legacy) == [tag |-> tag, hex |-> legacy]

RootSignature(key, hashes, legacy) == [key |-> key, hashes |-> hashes, hex |-> legacy]

segmentHashes ==
  [s \in 1 .. file.segments |->
     SegmentHash(Encrypted(s).tag, isTargetSpecLegacyTDF(file.version))]
rootSignature ==
  RootSignature(keyForEncryption, segmentHashes, isTargetSpecLegacyTDF(file.version))

(* hash, of assertions.ts: all but the binding.                              *)
hash(assertion) == [id |-> assertion.id, statement |-> assertion.statement]
AssertionSig(hashes, assertionHash, legacy) ==
  [hashes |-> hashes, assertionHash |-> assertionHash, hex |-> legacy]

PayloadKey(key) == [of |-> key, alg |-> "HS256", part |-> "symmetric"]
ForeignKey == [of |-> Foreign, alg |-> "ES256", part |-> "public"]
SigningKey(config) ==
  IF config.signingKey = NoKey THEN PayloadKey(keyForEncryption) ELSE config.signingKey

systemMetadata == [id |-> "system-metadata", statement |-> 1, signingKey |-> NoKey]

(* What is bound with a key.  The binding is a token whose header names the  *)
(* algorithm and may embed a key (jwk or x5c); that of CreateAssertion does  *)
(* not.                                                                      *)
Bound(content, key, embedded) ==
  [id |-> content.id, statement |-> content.statement,
   signer |-> key.of, alg |-> key.alg, embedded |-> embedded,
   assertionHash |-> hash(content),
   assertionSig |-> AssertionSig(segmentHashes, hash(content),
                                 isTargetSpecLegacyTDF(file.version))]
CreateAssertion(config) == Bound(config, SigningKey(config), NoKey)

(* The part of a key that its algorithm signs or verifies with.              *)
Signing(alg) == IF alg = "HS256" THEN "symmetric" ELSE "private"
Verifying(alg) == IF alg = "HS256" THEN "symmetric" ELSE "public"

CreationFails(config) ==
  \/ file.version \notin {"none", "4.2.2", "4.3.0"}
  \/ SigningKey(config).part # Signing(SigningKey(config).alg)

Statements(list) == {list[k].statement : k \in DOMAIN list}

(* An assertion is signed and pushed, or signing throws and pull with it,    *)
(* when the payload is out already.                                          *)
Signs(config) ==
  IF CreationFails(config)
    THEN at' = "failed" /\ UNCHANGED assertions
    ELSE assertions' = Append(assertions, CreateAssertion(config)) /\ UNCHANGED at

Unsigned ==
  {k \in DOMAIN file.assertionConfigs :
     file.assertionConfigs[k].statement \notin Statements(assertions)}
MetadataUnsigned ==
  file.systemMetadata /\ systemMetadata.statement \notin Statements(assertions)

SignSystemMetadata ==
  /\ at = "sealing"
  /\ MetadataUnsigned
  /\ Signs(systemMetadata)
  /\ UNCHANGED <<vars, case, openVars>>

(* The others are signed together and pushed in the order in which they are  *)
(* done.                                                                     *)
SignAssertion(k) ==
  /\ at = "sealing"
  /\ ~MetadataUnsigned
  /\ k \in Unsigned
  /\ Signs(file.assertionConfigs[k])
  /\ UNCHANGED <<vars, case, openVars>>

AllSigned == ~MetadataUnsigned /\ Unsigned = {}
WriteManifest ==
  /\ at = "sealing"
  /\ AllSigned
  /\ at' = "sealed"
  /\ UNCHANGED <<vars, sealVars, openVars>>

-----------------------------------------------------------------------------
(* What the reader finds, and what the KASes answer.                         *)
storedVersion ==
  IF damage.what # "version" THEN schemaVersion
  ELSE IF schemaVersion = "none" THEN "4.3.0" ELSE "none"

InDisorder(list) == IF damage.what = "order" THEN Reverse(list) ELSE list
storedHashes ==
  InDisorder([s \in DOMAIN segmentHashes |->
                IF Damaged("hash", s)
                  THEN [segmentHashes[s] EXCEPT !.tag.key = Noise] ELSE segmentHashes[s]])
storedRoot ==
  IF damage.what = "root" THEN [rootSignature EXCEPT !.key = Noise] ELSE rootSignature

StoredSegment(s) ==
  CASE Damaged("segment", s) -> [Encrypted(s) EXCEPT !.segment = 0]
    [] Damaged("tag", s) -> [Encrypted(s) EXCEPT !.tag.key = Noise]
    [] OTHER -> Encrypted(s)
storedSegments == InDisorder([s \in 1 .. file.segments |-> StoredSegment(s)])

StoredAssertion(k) ==
  CASE Damaged("statement", k) -> [assertions[k] EXCEPT !.statement = 0]
    [] Damaged("binding", k) -> [assertions[k] EXCEPT !.assertionSig.hashes = <<>>]
    [] Damaged("rebound", k) ->
         Bound([assertions[k] EXCEPT !.statement = 0], ForeignKey, ForeignKey)
    [] OTHER -> assertions[k]

ShareReceived(i) ==
  IF Damaged("share", i)
    THEN bxor(keyAccess[i].wrappedKey, Noise) ELSE keyAccess[i].wrappedKey

-----------------------------------------------------------------------------
(* The list of KASes of Client.decrypt.                                      *)
ListOf(r) ==
  IF r.allowList = NoList /\ r.allowedKases # NoList THEN r.allowedKases
  ELSE IF r.platformKases # NoList THEN r.platformKases ELSE {}

OpeningOf(c) ==
  [keyAccess |-> getKeyAccessObjects(c.file.plan),
   allowed |-> ListOf(c.reader), concurrencyLimit |-> 0]

ASSUME EnvelopeAssumption ==
  \A c \in Cases : /\ OpeningOf(c) \in Calls
                   /\ c.file.plan \in Seq(Range(c.file.plan)) \ {<<>>}
                   /\ c.file.segments \in Nat

Decrypt ==
  /\ at = "sealed"
  /\ at' = CASE reader.allowList = NoList /\ reader.allowedKases # NoList -> "unwrapping"
            [] reader.platformKases # NoList -> "listing"
            [] OTHER -> "misconfigured"
  /\ UNCHANGED <<vars, sealVars, openVars>>

(* fetchKeyAccessServers ends.                                               *)
ListArrives ==
  /\ at = "listing"
  /\ at' \in {"unwrapping", "unlisted"}
  /\ UNCHANGED <<vars, sealVars, openVars>>

UnwrapKey ==
  /\ at = "unwrapping"
  /\ Next
  /\ at' = CASE outcome' = "key" -> "verifying"
            [] outcome' \in {"rejected", "error"} -> "denied"
            [] OTHER -> at
  /\ UNCHANGED <<sealVars, openVars>>

reconstructedKey == keyMerge([k \in DOMAIN shares |-> ShareReceived(shares[k])])
keyForDecryption == Middleware(reader.keyMiddleware, reconstructedKey)
isLegacyTDF == isTargetSpecLegacyTDF(specVersion(storedVersion))

(* The key for an assertion is looked up by its id.                          *)
AssertionKey(assertion) ==
  IF assertion.id \in DOMAIN reader.Keys
    THEN reader.Keys[assertion.id] ELSE PayloadKey(keyForDecryption)

verifyJwt(token, key, alg) ==
  token.alg = alg /\ key.part = Verifying(alg) /\ key.of = token.signer

(* A key that is embedded in the header takes the place of the caller's,     *)
(* whose algorithm must still be the token's.                                *)
verify(assertion) ==
  LET key == AssertionKey(assertion)
      verificationKey == IF assertion.embedded = NoKey THEN key ELSE assertion.embedded
  IN /\ key.part # "private"
     /\ verifyJwt(assertion, verificationKey, key.alg)
     /\ hash(assertion) = assertion.assertionHash
     /\ assertion.assertionSig = AssertionSig(storedHashes, hash(assertion), isLegacyTDF)

AssertionsLeft == ~reader.noVerifyAssertions /\ verified < Len(assertions)

VerifyAssertion ==
  /\ at = "verifying"
  /\ AssertionsLeft
  /\ IF verify(StoredAssertion(verified + 1))
       THEN verified' = verified + 1 /\ UNCHANGED at
       ELSE at' = "refused" /\ UNCHANGED verified
  /\ UNCHANGED <<vars, sealVars, delivered>>

(* Mutant: the root signature is not compared.                               *)
AnyRoot == TRUE
RootMatches == storedRoot = RootSignature(keyForDecryption, storedHashes, isLegacyTDF)

VerifyRoot ==
  /\ at = "verifying"
  /\ ~AssertionsLeft
  /\ at' = IF RootMatches THEN "open" ELSE "refused"
  /\ UNCHANGED <<vars, sealVars, openVars>>

(* decryptChunk: the tag against the hash, then the cipher.                  *)
decryptChunk(s) ==
  LET chunk == storedSegments[s]
  IN /\ SegmentHash(chunk.tag, isLegacyTDF) = storedHashes[s]
     /\ chunk.tag = Tag(keyForDecryption, chunk.segment)

DecryptSegment ==
  /\ at = "open"
  /\ delivered < file.segments
  /\ IF decryptChunk(delivered + 1)
       THEN delivered' = delivered + 1 /\ UNCHANGED at
       ELSE at' = "refused" /\ UNCHANGED delivered
  /\ UNCHANGED <<vars, sealVars, verified>>

Close ==
  /\ at = "open"
  /\ delivered = file.segments
  /\ at' = "read"
  /\ UNCHANGED <<vars, sealVars, openVars>>

-----------------------------------------------------------------------------
EnvelopeInit ==
  /\ case \in Cases
  /\ call = OpeningOf(case)
  /\ Init
  /\ assertions = <<>>
  /\ at = "sealing"
  /\ verified = 0
  /\ delivered = 0

Seal ==
  \/ SignSystemMetadata
  \/ \E k \in DOMAIN file.assertionConfigs : SignAssertion(k)
  \/ WriteManifest

Open == VerifyAssertion \/ VerifyRoot \/ DecryptSegment \/ Close

EnvelopeNext == Seal \/ Decrypt \/ ListArrives \/ UnwrapKey \/ Open

(* Promises settle, requests end, and the stream is read.                    *)
EnvelopeSpec ==
  /\ EnvelopeInit
  /\ [][EnvelopeNext]_envelopeVars
  /\ WF_envelopeVars(EnvelopeNext)

-----------------------------------------------------------------------------
(* A stream opens only on a file as it was written: sealed with every        *)
(* assertion that was asked for, unwrapped to its key, of its version, with  *)
(* the hashes in their order and, unless the caller wants it otherwise, the  *)
(* assertions; and it delivers the segments as they were encrypted, in       *)
(* order.  Neither the merge of the shares nor the choice of the encoding by *)
(* a version that is not signed looks at anything: the root signature must.  *)
(* An assertion may be one that was bound again with a key in its header,    *)
(* which verify uses instead of the caller's, but only where the caller      *)
(* gave a key of that algorithm, and so never one that the payload key binds.*)
OnlyTheWrittenIsRead ==
  at \in {"open", "read"} =>
    /\ MetadataUnsigned = FALSE /\ Unsigned = {}
    /\ keyForDecryption = keyForEncryption
    /\ isLegacyTDF = isTargetSpecLegacyTDF(file.version)
    /\ storedHashes = segmentHashes
    /\ ~reader.noVerifyAssertions =>
         \A k \in DOMAIN assertions :
           \/ StoredAssertion(k) = assertions[k]
           \/ Damaged("rebound", k) /\ AssertionKey(assertions[k]).alg = ForeignKey.alg
    /\ \A s \in 1 .. delivered : storedSegments[s] = Encrypted(s)

(* A file is refused for a cause: the two sides use different middleware,    *)
(* an id leads to another key than the one an assertion was signed with, or  *)
(* to the wrong part of it or with another algorithm, or something the       *)
(* reader looks at was damaged.  A file of either version, of any split      *)
(* plan, with assertions in any order, is read by its reader.                *)
CounterpartOf(assertion) ==
  [of |-> assertion.signer, alg |-> assertion.alg, part |-> Verifying(assertion.alg)]
RefusalIsExplained ==
  at = "refused" =>
    \/ file.keyMiddleware # reader.keyMiddleware
    \/ \E k \in DOMAIN shares : Damaged("share", shares[k])
    \/ damage.what \in {"version", "order", "hash", "segment", "tag", "root"}
    \/ /\ ~reader.noVerifyAssertions
       /\ \/ damage.what \in {"statement", "binding", "rebound"}
          \/ \E k \in DOMAIN assertions :
               AssertionKey(assertions[k]) # CounterpartOf(assertions[k])

(* keySplit: "any n-1 subset of the keys contains no information".  Whatever *)
(* key access objects are put together, without one of every split they do   *)
(* not make the key, several objects for a split or not.                     *)
SharesHideTheKey ==
  at = "sealed" => \A some \in SUBSET Kaos :
    /\ some # {}
    /\ {SplitOf(i) : i \in some} # {SplitOf(i) : i \in Kaos}
    => keyMerge([k \in 1 .. Cardinality(some) |->
                         keyAccess[SetToSeq(some)[k]].wrappedKey]) # Key

(* Writing and reading end, and the recovery of a key, whichever requests    *)
(* fail.                                                                     *)
EnvelopeEnds ==
  /\ at = "sealing" ~>
       at \in {"failed", "misconfigured", "unlisted", "denied", "refused", "read"}
  /\ EveryUnwrapEnds
=============================================================================
