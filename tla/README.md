# TLA+ specifications of the OpenTDF web SDK

The OpenTDF web SDK encrypts and decrypts TDF files ("Trusted Data Format") in
browsers and in Node: the content is cut into segments, encrypted with one
symmetric key, and stored in a zip archive next to a manifest; the key is split,
and each share wrapped for one or more key access servers (KASes), which hand it
out to whoever the policy allows. The SDK is asynchronous throughout. There is
one thread, but every `await` lets other calls, callbacks of promises and the
consumer of a stream in between, and several of these work on the same fields.
This directory models the parts whose correctness depends on that order, checks
them with TLC on small instances, and proves with TLAPS, for all instances, the
safety properties of the segment scheduler, what the decryption stream promises its
consumer (order, verification, bounded memory), and the main properties of the
cache of KAS keys, of the token clients, of the reader with its list of servers,
and of the login of the sample application.

Paths below are relative to `src/lib/`, or to `src/` if they begin with `web-app/`.

## Contents

1. [The system](#1-the-system)
2. [The modules](#2-the-modules)
3. [The runs](#3-the-runs)
4. [Fairness](#4-fairness)
5. [The proofs](#5-the-proofs)
6. [Where code and comments disagree](#6-where-code-and-comments-disagree)
7. [What is not modelled](#7-what-is-not-modelled)
8. [Plan](#8-plan)
9. [Running everything](#9-running-everything)

## 1. The system

| Component | State it keeps | Operations | What is hard about it |
|---|---|---|---|
| Bounded segment scheduler (`tdf3/src/tdf.ts` 1134-1217) | segments scheduled and consumed, batches in flight, `pumping`, `stopped` | `fillWindow`, `markConsumed`, settlement of a batch; each calls `pump` | no loop of its own: a missing `pump` stalls it, a wrong counter opens the window |
| Decryption stream (`tdf.ts` 1028-1119, 1259-1308, 1408-1509) | the `chunks` array with a mailbox (a promise) for each segment, the index of the next one, the stream's queue | start a batch, request its bytes, cut and decrypt, settle mailboxes, `pull`, close, cancel | answers in any order, failures while other batches are in flight, mailboxes replaced after an `await`, a consumer that cancels in the middle |
| Legacy schedule (`tdf.ts` 1028-1048) | the current group of requests | launch a group, wait for all of it | failures are swallowed: only the mailboxes tell |
| Key recovery (`tdf.ts` 706-980, `src/concurrency.ts`) | two nested pools of promises, the shares collected | check the manifest, ask a KAS, take an answer, give up a share, merge | "and" over splits of "or" over KASes, under a bound on concurrency; a share too many or too few yields another key without an error |
| TDF writer (`tdf.ts` 349-690) | the plaintext buffer, byte counters and checksum, segment and zip records, the stream's queue | read content, encrypt a segment, finish payload, finish manifest, backpressure | counters that several calls of `pull` advance and one resets; the end must be found whatever the chunking and the pace of the consumer |
| OIDC access token (`src/auth/oidc.ts`, `tokenExpiry.ts`, the `oidc-*-provider.ts` files) | `data`, `cachedExpiry`, `inFlight`, `config`, `signingKey`; the provider's seed | `get`, `withCreds`, `exchangeForRefreshToken`, `refreshTokenClaimsWithClientPubkeyIfNeeded` | fields read before and written after an `await` while a key update drops them; a server that rotates refresh tokens; lost answers |
| Token providers and interceptors (`src/auth/token-providers.ts`, `interceptors.ts`) | cached token and expiry, promise in flight, newest refresh token; the interceptor's DPoP keys | get a token, decorate a request | a second implementation of the same scheme, without key updates; a promise shared with requests that are over |
| TDF client (`tdf3/src/client/`) | session keys, cache of KAS public keys; it also writes into the application's scope object | `encrypt`, `decrypt`, `createSessionKeys` | a promise is cached before it settles; concurrent encryptions share the cache, and perhaps a scope, whose arrays each of them completes |
| Reader (`src/opentdf.ts`) | the wrapper's state from `resolving` to `done`, the promise of the type, the promise of the overview, the obligations | `open`, `decrypt`, `obligations`, `manifest`, `attributes`, `close` | a state set before and after awaits of calls that overlap; calls that share one decryption or start their own |
| List of KASes (`src/access.ts`, `src/access/`) | none | `fetchKeyAccessServers` over two protocols; `rewrap`, public keys | pages cut by offset from a list that changes; starting again over the other protocol |
| Policy (`src/policy/`) | none | attribute lookup with pages, `plan` | a boolean expression over KASes reduced to a list of splits |
| Data sources (`src/seekable.ts`) | none | read a range, with three attempts; turn a source into a stream | which failures are tried again; chunks of any length |
| Zip records (`tdf3/src/utils/zip-*.ts`) | none | write records and headers, find and read them | sizes that are in one of three places; headers with a variable part |
| Sample login (`web-app/src/session.ts`, `App.tsx`) | the sessions in memory and in `sessionStorage`, the signing key, the promise of the current session | `currentSession`, `authViaRedirect`, `getSigningKey`, `updateClientPublicKey` | the page can be left or loaded again between any two steps; a code is good once |
| Key splitting (`tdf3/src/utils/keysplit.ts`, `models/`) | none | split a key into shares, hand them to key access objects, merge | an exclusive or of anything is a key; several objects share a split, a missing and an empty split id are one |
| Signatures and assertions (`tdf.ts` 504-582, 1353-1407, `assertions.ts`) | the list of signed assertions | sign, push, verify; hashes, root signature | two versions of the format with their own encodings, told apart by an optional field; assertions signed together, by keys looked up under ids |
| Cryptography, encodings | none | pure functions | byte formats |

How they interact. `OpenTDF` owns a `TDF3Client`. A decryption opens the zip
archive through a data source, lets **key recovery** ask the KASes (each request
is decorated by an **access token** provider or an interceptor), verifies the
root signature, and builds the **decryption stream**: the **scheduler** (or the
legacy schedule) starts batches, each batch requests its bytes and settles the
mailboxes of its segments, and `pull` awaits the mailboxes in order and reports
each consumed segment back to the scheduler. An encryption takes KAS public keys
from the client's cache, splits the key, and builds the **TDF writer**, which
pulls the content and pushes the archive through a stream with backpressure.
`OpenTDF.open` returns a **reader**, which finds out the type of the file once for
all its calls, gets the **list of KASes** if the application gave none, and starts
a decryption as often as it is asked. The sample application has a **login** of
its own and hands its tokens and its signing key to the SDK.

What makes each part correct is stated in its module as named properties; the
hazards that motivate them are listed, with their lines, in `PROJECT.json`.

## 2. The modules

| Module | Models | Uses |
|---|---|---|
| `SegmentScheduler` | the bounded scheduler alone | |
| `SegmentPipeline` | what both schedules share: slices, mailboxes, the stream, its consumer | |
| `DecryptStream` | `decryptStreamFrom` with the bounded scheduler | extends `SegmentPipeline`, instantiates `SegmentScheduler` |
| `LegacyDecryptStream` | `decryptStreamFrom` with `updateChunkQueue` | extends `SegmentPipeline` |
| `PayloadStream` | the choice between the two; the properties of both | extends `DecryptStream`, instantiates `LegacyDecryptStream` |
| `SegmentDelivery` | abstract: what the consumer of the plaintext is promised | implemented by `PayloadStream` |
| `KeyUnwrap` | `splitLookupTableFactory`, `unwrapKey`, `allPool`, `anyPool` | extends `KeySplit` |
| `KeyRecovery` | abstract: the and-or of splits and KASes | implemented by `KeyUnwrap` |
| `ZipWriter`, `ZipReader` | the records of an archive, and how they are found | `ZipReader` extends `ZipWriter` |
| `ContentSource` | `sourceToStream` | |
| `TdfWriter` | `writeStream` | extends `ZipReader`, `ContentSource` |
| `GrantPlan` | `plan`, `simplify`, `effectiveKasKeys`: from attribute values to key splits | |
| `Encrypt` | `Client.encrypt` up to the key access objects, the cache of KAS keys | extends `GrantPlan` |
| `TokenExchange` | what both token clients share; the identity provider | |
| `AccessToken` | the class `AccessToken`, the seeded providers | extends `TokenExchange` |
| `TokenProvider` | the closures of `token-providers.ts`, the interceptors | extends `TokenExchange` |
| `TokenClients` | an application with either; the properties of both | extends `AccessToken`, instantiates `TokenProvider` |
| `TokenService` | abstract: what whoever asks for a token is promised | implemented by `TokenClients` |
| `KeyAccessServers` | `fetchKeyAccessServers` and the registry it reads | |
| `RemoteChunk` | `getRemoteChunk`: one read of a URL | |
| `Reader` | `ZTDFReaderWrapper`, `ZTDFReader` | extends `KeyAccessServers`, `RemoteChunk`, instantiates `ZipReader` |
| `KeySplit` | `keySplit`, `keyMerge`, `getKeyAccessObjects` | |
| `Envelope` | what `writeStream` seals a file with; `Client.decrypt`, the checks of `decryptStreamFrom`, `assertions.ts` | extends `KeyUnwrap` |
| `Session` | `OidcClient` of the sample application, in its browser | |
| `PayloadStreamProofs` | theorems about `PayloadStream` | the module, instantiates `SegmentSchedulerProofs` |
| other `*Proofs` | theorems about `SegmentScheduler`, `Encrypt`, `TokenClients`, `Reader`, `Session`, `Envelope`, `TdfWriter` | the module, `TLAPS` |
| `MC*` | instances for TLC; `MCEnvelope` takes the calls of `MCKeyUnwrap` as well | |

A step of a model is the code from one `await` (or one turn of the event loop)
to the next, with every call it makes; where a model stops more often than the
code, its header says so.

**SegmentScheduler.** `consumedSegments`, `scheduledSegments`, `inFlightBatches`
and `stopped` are the code's variables; `batch` records how far the promise chain
of each batch is: waiting for its microtask, running, settled, past `.catch`,
past `.finally`. `Pump` is the whole loop of `pump`, so that `FillWindow`, `MarkConsumed` and `FinallyBatch` each
include it as the code does: some number of turns, before each of which the
loop's conditions hold and after which they do not. The flag `pumping` is not a variable: `pump` never
awaits, and nothing it calls is synchronous, so no step can observe it set.

**SegmentPipeline.** A segment is known by its number. `tampered` is a set
chosen at the start: the segments whose bytes, or hash, do not verify.
`encryptedOffset` sums the sizes of the manifest; `BufferOffset` is the code's
arithmetic for the place of a segment in the buffer of its batch, `TrueOffset`
where it is, and a segment cut from the wrong place does not verify. A request
fails, or returns any number of bytes up to what was asked (a truncated file).
A mailbox is settled once; when `pull` has delivered a segment it puts a new one
in the array, which slices of running batches do not reach. The stream keeps at
most one chunk in its queue (the default strategy of `ReadableStream`).
`ProgressHandlerThrows` and `EnqueueAfterCancel` are the two ways in which `pull`
fails after the mailbox has answered.

**DecryptStream, LegacyDecryptStream, PayloadStream.** They say what becomes of a
batch. In the first a failed batch also rejects all later mailboxes (`onError`)
and stops the scheduler; in the second it rejects its own slice, is otherwise
swallowed, and a group of requests is awaited before the next one starts.
`schedule` is the choice of `decryptStreamFrom`. The second never looks at the
consumer: it downloads to the end of the file after an error and after a cancel,
so its work is bounded in `WorkIsBounded` by groups only.

**KeyUnwrap.** A key access object is known by its place in the manifest, a split
by the first object that names it. Both pools are started in one step, as
`labelPromise` calls its job at once. `Promise.race` and `Promise.any` settle
with the promise that settled first; the model leaves open which that was among
those settled. Split names are assumed not to be integers: JavaScript would
list those first.

**ZipWriter, ZipReader.** A file is the sequence of its pieces (headers, data,
descriptors, records), each with its size and the fields a reader looks at. The
reader is a set of operators: which records are in the last 1000 bytes, what their
extra fields say, where an entry begins. `TrueEntry` is where it does. `IsArchive`
is what every writer of archives sees to (a record has its entry's size and offset,
or leaves any of them to the zip64 information, in order, among any other extra
fields), and `Readable` what of these the reader can be expected to open: the whole
directory in the tail, no extra field twice, a value for each field that is
saturated, and a manifest of a sensible size.

**ContentSource.** A content stream is the lengths of its chunks. A stream or a
blob comes as it likes; a chunker is asked for `chunkSize` bytes at a time; all
else is one chunk.

**TdfWriter.** Bytes are counted. A checksum is the sequence of pieces that went
into it, so `DirectoryMatchesBytes` compares what the directory says with what was
put out, and that includes that the finished file is a readable archive, in which
`ZipReader` finds both entries.
`pull` is where the call of `pull` is suspended.

**GrantPlan.** Operators only, with the meaning of a policy (`Satisfies`) and of a
list of splits (`Opens`) stated next to them. A value carries the key mappings
and grants of itself, its attribute and its namespace. The granters of an fqn are a
set of objects in the code: a value that is there twice grants by the same objects,
while its mappings are copied and are there twice (`GrantersFor`). The code names a clause
by a sorted string of its KASes and kids; here the name is the bag of them, and a
split is known by the place of its clause. Names of KASes and kids are assumed
to hold no `/` or `:` that would make two strings equal. A KAS granted with
cached keys has at least one (`IsPolicy`, with the rule of an attribute, which is one
for all its values). Filters and "first of" are written with `FlattenSeq` and `Min`,
which the proofs can reason about.

**Encrypt.** `scope` is what the applications pass, one object or two; `cache` is
`kasKeyInfoCache`, an entry with what it is looked up by and its promise; `call`
is where each call of `encrypt` is. A call runs from one `await` to the next:
`RunOwnKeys`, `RunEffectiveKeys` and `RunItems` are the three loops that await a
key in their bodies, and what follows the last turn of one (`Prepare`,
`StartItems`) is part of the step. A value whose attribute is missing makes `plan`
throw (`HasNoAttribute`), a granter with a key of no known kind the loop that carries
out the plan (`IsUnknown`). The loops iterate over the scope's own array,
which another call may lengthen in the meantime; so they read it at every turn.
A key that is fetched is the platform's base key, or the key of the KAS itself;
the three attempts of `fetchKasPubKey` are one step. PEMs are well-formed, and a
mapped key has an algorithm that the policy may or may not declare.
`ScenarioAssumption` says which answers of a platform are considered: the values of
a policy as `IsPolicy` has them, each found under its own fqn, a kid in every mapped
key and one key for a kid of a KAS. The values that a call asks for come back in any
fixed order, so `missing` is a set.

**TokenExchange, AccessToken.** An exchange is known by its number, and so are the
tokens it yields. `exchange[e]` records what it presents, the key read for its
header, and the key read, after an `await`, for its proof. The identity provider
is external: it takes a refresh token once and returns the next. `cachedExpiry` is
the token whose expiry the field holds. `seed` is the provider's own
`refreshToken` or `externalJwt`; a seeded provider never enables DPoP.

**TokenProvider.** The variables of the three closures, which differ in what they
present and in whether they follow a rotation (`options.kind`). The DPoP
interceptor awaits its keys together with the token: when they fail, the request
is over and the exchange is not.

**TokenClients, TokenService.** `client` is which of the two an application uses;
the refinement `ServesTokens` maps either to the abstract service, in which a
caller is served with a token that was fresh at some moment while it waited.

**KeyAccessServers.** `registry` is the platform's list, in its order; a page is a
part of it. A server is registered anywhere in the list, or removed, between two
pages. `since` is for the property: the servers that have been there all along.

**RemoteChunk, Reader.** `fetch` is one read of a URL, with the loop's counter; a
reader makes one read after the other while it finds out the type and loads the
overview, so one variable is enough. `delegate` and `overview` are promises that
calls wait for; `call` is where each call is. The recovery of the key is one answer
(`KeyUnwrap` has it in detail). Obligations are named by the call whose decryption
they came with.

**KeySplit, Envelope.** A byte string is known by the random strings it is the
exclusive or of, so a merge is the key exactly if everything else cancels out.
Signatures, tags and bindings are records of what they were made from. A case of
`Envelope` is a file, one part of it that is damaged or none, and a reader; the
file is sealed, `KeyUnwrap` recovers the key from its shares, and the reader checks
as the code does: assertions one by one, root signature, segments. Segment tags are
GMACs, as the client always asks for. The binding of an assertion is a token whose
header may embed a key (`jwk` or `x5c`): the SDK writes none, but `verify` uses it in
place of the caller's (`assertions.ts` 174-181), of which only the algorithm must still
be the token's. One of the damages is such an assertion, with another statement, bound
again by somebody else (`rebound`). How segments are cut and fetched is in
`TdfWriter` and `PayloadStream`; the damage there is a free choice, here it is
what hashes and signatures let through.

**Session.** A load of the page starts the program from `sessionStorage` and the
query of its address; every step of the program can be the last before the next
load. `presented` is what the token endpoint was sent. The browser and the
provider are external: the user reloads and goes back at any time, the provider
gives a code for a request as often as it is visited, and every request may fail.
`App` asks for the signing key only once `currentSession` has returned a session with
a user (`LoggedIn`), so never during an exchange of the same load.

## 3. The runs

| Run | Question | Bounds |
|---|---|---|
| `MCSegmentScheduler` | Does the window hold, is the counter exact, do batches tile the file, does a failure stop it for good? | 7 segments or fewer, batches that do not divide the file |
| `MCDecryptStream` | Does the consumer get the segments in order, verified, once, up to a failure that is reported to whoever waits; is memory bounded; does either schedule implement `SegmentDelivery`, and the bounded one `SegmentScheduler`; does the stream end? | 5 segments in batches of 2, 2 at a time: a window of 4, a batch that waits for the consumer, a short last one; in the legacy schedule two groups |
| `MCTdfWriter` | Do directory and manifest describe the bytes, and does the reader find them; are segments even, is the queue bounded, does the stream end? | segments of 3 bytes; content of up to 8 bytes in up to 3 chunks, from a stream, a chunker that gives 4 bytes, or a buffer; byte limits that are reached at each stage, and one that is not |
| `MCTokens` | Do both clients implement `TokenService`; do callers share an exchange that runs; what survives key updates, lost answers, expiry and rotation; is everyone answered? | 2 callers, 2 keys, 4 exchanges, 1 update; every deployment of the class and every provider with every interceptor |
| `MCEncrypt` | Do the splits of a file mean what the rules of its attributes say; does each have its key access objects whatever the cache holds; is a key fetched once; are a mismatch and a repeated KAS explained; does every call end? | 3 values of 2 attributes under 3 by 2 rules, with 6, 6 and 4 choices of granters over 3 KASes; 2 concurrent calls over 1 or 2 scopes, 5 scopes by 5 second requests, with failures and with a base key that belongs to another KAS |
| `MCReader` | Is closed final; are obligations those of a complete decryption; is the list of servers complete; are the places of the entries right; does every call end? | 3 concurrent calls of any operation; all 24 combinations of options; a registry of up to 3 servers in pages of 1 that changes while it is read; 384 archives of other writers; a URL with 2 calls |
| `MCSession` | Is a code sent once, with its own verifier; does an answer find its request; is the kept key the tokens'? | 6 loads of the page, 3 requests, 3 codes |
| `MCEnvelope` | Is what is opened what was written; has a refusal a cause; do shares hide the key; does `unwrapKey` implement the and-or of `KeyRecovery` with one share of each split, and ask no KAS in vain; does everything end? | 4 versions, up to 2 assertions and the system metadata, signed by 3 keys under 2 ids, 6 sets of keys to verify with; 6 split plans of up to 3 objects by 3 lists; middleware on either side; 18 damages, of files of 2 segments, 1 or none; 27 choices of the list. For `unwrapKey`, every manifest of up to 3 objects over 2 splits and 3 KASes with every allowlist; larger ones with pools of 1 and 2 |
| `MCDecryptStreamUneven`, `MCTokensStale`, `MCTokensLostRefresh`, `MCEncryptPartialScope` | Section 6 | |

Why the bounds are enough. The scheduler's decisions depend on differences
(scheduled minus consumed, total minus scheduled) compared with one batch and one
window; the instances have a full window, a batch that does not fit, a short last
batch and a consumer ahead of and behind the settlements. For the pools, three
objects give every pattern of shared splits, duplicate URLs and missing sids, and
the larger manifests have more jobs than places in either pool. For the writer, a
content can be empty, shorter than a segment, an exact multiple, and several
segments in one chunk. For the encryption, two values of one attribute and one of
another make every pair of a disjunction and a conjunction, with clauses that
coincide, that share a KAS and that are empty; the granters are mappings, grants
with and without keys, and lists at two levels. Two calls suffice to find an
entry of the other's in each of its states, and to complete one scope twice.
For the token clients, two callers and four exchanges allow
one exchange to be overtaken by another, whose promise a third then replaces.
`MaxExchanges` and `MaxUpdates` are the only bounds that cut their behaviours off: a
call starts only if the exchanges it may need are left (`Budget`), so a bound
never leaves a caller waiting. For the reader, three calls are two that overlap and
a third that comes before, between or after; a page of one server puts a change
of the registry before, at and behind the offset. The archives vary what a record
may leave to the zip64 information, which extra fields stand around it, whether
local headers have a part of their own, and comments that push a record out of the
bytes the reader looks at. For the login, `MaxPages`, `MaxRequests` and
`MaxCodes` let a code be reloaded during its exchange, be gone back to after
another login has begun, and be given twice for one request. For the envelope, two
segments and two assertions can change places and be mixed up, three splits have a
proper part of two, and no segments leave the root signature alone to tell a wrong
key.

Deadlock is checked, except for the envelope, the encryption, the
writer, the reader and the login, which end: calls that have returned, a stream that has been
read, a user who has used up the loads of the page. The other models have a
stuttering action for the state in which everything is over, and deadlock would
be a state in which somebody waits and nobody can move.

What the properties say, beyond their types:

* **Scheduler.** `WindowBound`: scheduled but unconsumed segments never exceed
  the window. `InFlightExact`: the counter is the number of batches between
  their start and their `.finally`. `BatchesTile`: the batches are consecutive,
  do not overlap and leave nothing out. `NothingScheduledAfterFailure`: after a
  `.catch` no batch is added.
* **Streams.** `DeliversInOrder`: refinement of `SegmentDelivery`.
  `UsesScheduler`: what the scheduler sees inside the stream is a behaviour of
  the scheduler alone; in particular only scheduled segments are reported
  consumed. `ErrorIsAttributed`: a stream that fails was made to fail by the
  network, the file or the application, and a mailbox is only rejected for a
  reason. `OnlyVerifiedPlaintext`. `WorkIsBounded`: plaintext in mailboxes and in
  the stream's queue never exceeds the window and the one segment that may be queued
  (`pump` refills the window when a segment is enqueued, before the consumer takes it),
  and in the legacy schedule requests never exceed a group.
  `FailureReachesEveryWaiter`: after a failure no mailbox that somebody may await
  is left pending. `StreamEnds`.
* **Key recovery.** `RecoversKey`: refinement of `KeyRecovery`, in which the key
  is merged from one granted share of each split. `NoNeedlessRewrap`: the pools
  stay within their bound, and without concurrency a KAS is asked only when those
  before it have refused. `EveryUnwrapEnds` is part of `EnvelopeEnds`.
* **Writer.** `FileDescribesItself`, which is `DirectoryMatchesBytes` and
  `SegmentsMatchPayload`; `EvenSegments` (which the readers' arithmetic relies on), `PayloadQueueBound`, `WriteEnds`.
* **Token clients.** `ServesTokens`: refinement of `TokenService`, except for a
  token that `exchangeForRefreshToken` stored without its expiry (section 6). `InFlightIsRunning`: the
  shared promise always settles. `ExchangesBoundedByUpdates`: only a key update
  lets another exchange run beside the first. `RotationIsFollowed`: a credential
  that the server has replaced is presented only after an update, a loss, or the
  double use of a seed. `EveryCallerAnswered`.
* **Encryption.** `PlanImplementsPolicy`: for every set of KASes, it satisfies the
  attributes' rules if and only if it can open every split. `WrappedForThePlan`:
  a finished call has key access objects for its splits and no others, with the
  mapped key where the policy names one. It leaves out two cases in which the
  code uses another key: a kid some call asked for by hand (section 6), and a
  mapping whose algorithm the policy does not declare, which is cached under no
  algorithm and looked up under that of its PEM. `KeysFetchedOnce`.
  `MismatchIsExplained`: the error "Attribute mismatch" comes from the platform,
  the scope (which may also list an attribute, or give a value, twice), or another
  call with the same scope. `RepetitionIsExplained`: a split that names one KAS
  twice, which decryption refuses, comes from a policy that grants several keys of
  that KAS, or its key for another KAS, or grants it by two values of an `anyOf`
  attribute, or from a KAS of the file that hands out the base key of another.
  `EncryptEnds`.
* **Reader.** `ClosedIsFinal`: when a `close` has resolved, nothing that was still
  under way sets the state back. `ObligationsAreCurrent`: the answer came with a
  complete decryption, not older than the last one complete when it was asked for.
  `OverviewIsTrue`: of an archive (`MCReader` assumes that its files are) the reader
  knows where the entries are, or it is one that it cannot be expected to open.
  `EveryCallEnds`, over a URL that fails at any attempt as well.
* **List of servers.** `AllowListComplete`: a server registered throughout is in
  the list, if none was removed meanwhile.
* **Envelope.** `OnlyTheWrittenIsRead`: a stream opens only with the key, the
  version, the hashes and the assertions of the file as it was written, and
  delivers its segments; an assertion that was bound again under a key in its header
  passes if the caller's key for its id has that algorithm, and never in place of one
  that the payload key binds (section 6). `RefusalIsExplained`: a file that is refused was damaged,
  or its reader lacks the middleware or a key. `SharesHideTheKey`: no key access
  objects that leave out a split make the key. `EnvelopeEnds`.
* **Login.** `CodesAreSpentOnce`; `RequestIsFound`, with an exception (section 6);
  `KeyIsTheTokens`: the stored tokens are bound to the stored key, and a page that is
  loaded again, with no key in memory, signs and logs in with it.

Each of these is broken by a mutant of the model, a change of one definition as a
plausible bug would make it; the mutants stand next to what they replace.

## 4. Fairness

JavaScript runs every microtask, so promise callbacks are weakly fair. A request
ends: with an answer, or when `fetch` throws. These two are all that the
liveness of `TokenClients`, `Encrypt` and `Reader` (`LibraryStep`) rests on;
`Envelope`, with `KeyUnwrap` inside, adds that the stream is read; nobody is assumed to make a
request, to change a key, or to let a token expire. The streams also assume a
consumer who keeps reading (`Read` is weakly fair), as a stream that is not read
may stay open for ever by design; nothing makes the consumer cancel, or its
progress handler throw. The writer assumes that the content stream yields or fails. `Session` has no
fairness and no liveness property: whether a login ends is up to its user.

## 5. The proofs

`SegmentSchedulerProofs` proves, for every number of segments, batch size and
limit of concurrency in `Nat` (the last two positive):

| Theorem | Property |
|---|---|
| `TypeCorrect` | `SchedulerTypeOK`, of no run: the theorem is stronger |
| `WindowIsBounded` | `WindowBound` |
| `InFlightIsExact` | `InFlightExact` |
| `FailureIsFinal` | `NothingScheduledAfterFailure` |
| `BatchesAlwaysTile` | `BatchesTile` |

None of the first three is inductive alone. `pump` adds a batch while the window and the
counter have room, so the invariant must relate the counter to the batches that
are in flight and say that batch starts are where the counter of scheduled
segments has been: every batch lies below `scheduledSegments`, and what lies
above has never started. `PumpKeepsInv` shows that all turns of one call of `pump` preserve this, with
`TurnsCount` for the number of batches they add; `NextKeepsInv` has one case for each
action, and `SchedulerInvariance` concludes. Cardinalities come from
`FiniteSetTheorems`. `FailureIsFinal` follows from the same invariant: with
`stopped` set the loop makes no turn, so no step adds a batch. `BatchesAlwaysTile` needs
`TileInv`, which adds that the counter of scheduled segments is a multiple of the
batch size until it is the length of the file; `Multiples` and `StartsApart` are
the facts about multiples that the solver does not find by itself.

`PayloadStreamProofs` proves, for files of any length, segments of
any positive size, any positive batch size and limit, any set of tampered
segments, and either schedule:

| Theorem | Property |
|---|---|
| `PlaintextIsVerified` | `OnlyVerifiedPlaintext` |
| `DeliveryIsImplemented` | `DeliversInOrder`, the refinement of `SegmentDelivery` |
| `WorkIsAlwaysBounded` | `WorkIsBounded` |
| `SchedulerIsUsedAsSpecified` | `UsesScheduler`, the refinement of `SegmentScheduler` |
| `ErrorsHaveCauses`, for even files | `ErrorIsAttributed` |
| `FailuresReachWaiters`, for even files | `FailureReachesEveryWaiter` |

To the reader all batches are alike: `BatchSide` says that a step of one, whichever
schedule it belongs to, fills a mailbox with a segment that verifies, or rejects
some, and touches nothing of the stream. So the invariant `DeliveryInv` only needs
the reader's side: `pull` waits only with an empty queue and a chunk left, and what
was received is the prefix of the file before `nextChunkIndex`, but for one segment
that may be queued. Each of the reader's steps then is a step of `SegmentDelivery`
or a stutter.

`markConsumed` takes for granted that what is consumed was scheduled, and
`SegmentScheduler` states it as a guard of `ConsumeScheduled`; inside the stream
there is no such guard, and it has to follow from what batches, mailboxes and reader
do. `WindowInv` adds three facts to the scheduler's own invariant: what a batch has
yet to decrypt is neither delivered nor decrypted (`StillToCome`), plaintext waits
only between the reader and the end of the schedule (`PlaintextInWindow`), and the
counter of consumed segments is the index of the chunk that is read next. The proof
needs that slices have no segment in common (`SlicesApart`) and lie within the
schedule (`BatchWithinSchedule`), which is `TileInv`; the scheduler's lemmas are used
through the instance `Window`. The bound on memory follows: what waits in mailboxes
lies in an interval that `WindowBound` bounds, and the queue holds one segment more. For the legacy schedule `LegacyInv` says that
what runs belongs to the last group.

The last two theorems are about files in which every segment but the last is as
long as the first (`EvenFile`), which is what the writer makes (`EvenSegments`).
With other sizes neither holds: `encryptedOffset % slice[0].encryptedOffset` is
then the wrong place, at which an intact segment does not verify
(`MCDecryptStreamUneven`), or is found although the answer was cut off before its
end, so that the batch is not rejected (six segments of 1, 1, 5, 5, 5 and 5 bytes).
For even files the sum that `encryptedOffset` is has a closed form (`OffsetIsEven`:
it satisfies the recursion, and only one function does), and with it the place
that is computed is the true one (`PlacesAreRight`). `FailureInv` then says what a
batch knows: its loop has found in the buffer what it passed (`PassedIsFetched`),
how it is settled tells whether the buffer was whole (`OutcomeTells`), what is
rejected has a cause (`RejectionsCaused`), and a batch of the legacy schedule
begins at a multiple of the batch size (`GroupsAligned`), so that its slice is its
own. Steps are first sorted into kinds that both schedules share: a batch fails,
finishes, receives, decrypts, is caught, or starts.

`EncryptProofs` proves, for every set of scenarios (policies, scopes, plans,
answers of the platform) and any number of concurrent calls:

| Theorem | Property |
|---|---|
| `PlansImplementPolicies` | `PlanImplementsPolicy` |
| `FilesAreWrappedAsPlanned` | `WrappedForThePlan` |
| `MismatchesAreExplained` | `MismatchIsExplained` |
| `KeysAreFetchedOnce` | `KeysFetchedOnce` |
| `RepetitionsAreExplained` | `RepetitionIsExplained` |

What the splits mean is a fact about `plan` alone, `PlanOpens`, for any
sequence of values of a policy. A clause is met by a set of KASes when they have one
of its granters. The clauses of one attribute are met together if and only if its
rule is, those of all attributes if and only if the policy is satisfied. `simplify`
changes nothing in that: a clause left out has the name of one that stays, and
clauses of one name have granters at the same KASes; a granter with several keys
gives several steps at one KAS. These are statements about flattened sequences, so
the module begins with what `FlattenSeq` does: what is in it (`FlattenedElements`),
and at which place (`FlattenPlaces`). `PlanInv` adds only that what a call has
planned for are values of the policy.

`CacheInv` says that the cache is a sequence of entries with their
five fields, none of which an earlier one answers. All of the code that touches the
cache from the side of a call goes through `AwaitEntry`, so each handler, innermost
first, is shown to either leave the cache alone or append an entry that was looked
for and not found (`LookedForFirst`); `AppendKeepsInv` shows that this preserves the
invariant, and `SettleKeepsInv` that an answer does, which changes nothing an entry
is looked up by. The proof is the precise form of an informal argument: between the
lookup and the `push` there is no `await`.

`MismatchInv` follows a call that has a scope to itself (`Alone`): the scope is, at
each of its steps, what the application passed with what the call itself has put
there. Then values given once and all of them listed, with those that were missing,
are as many as the attributes.

`WrapInv` joins three facts. The cache is sound (`CacheSound`): a resolved entry
holds a key of the KAS it was asked of or of the one whose base key that publishes,
and, under a kid that nobody asked for by hand and whose algorithm the policy
declares, the key of that kid. A call is in order
(`WrapsFor`): its key access objects are those of the items before the one it waits
for, and the entry it waits for is one that matches what that item asks. And what a
policy maps is in the cache by the time the plan is carried out (`HasPut`): entries
are never taken away, a scope that is completed by other calls keeps the values it
had, and so the keys of those are still in their places (`FlattenPrefix`).

`PlanFollowed` adds that a call which autoconfigures carries out the plan it made,
whatever other calls do with its scope meanwhile. Two key access objects of one
split at one KAS are then for one item, which encloses several keys of its granter,
or for two items, whose steps come from two places of one clause, for the steps of
different clauses never share a split (`SimplifiedPlaces`, `EnclosedPlaces`). Either
way the policy grants that KAS twice, unless a KAS of the file handed out the key of
another. The proof needed that exception only for the KASes of the file itself, and
`RepetitionIsExplained` now says so; it used to excuse any base key of the platform.

Two of the properties were wrong in corners that the runs did not reach, and were
corrected on the way. An application that gives a value twice gets a mismatch from
nobody's fault but its own; and a granter with a place to get its key from
("remote") may share that place with another one. `MCEncrypt` has a scenario for
each now.

`TokenClientsProofs` proves, for all callers, keys, numbers of exchanges and
deployments:

| Theorem | Property |
|---|---|
| `SharedExchangeRuns` | `InFlightIsRunning` |
| `BurstsMakeOneExchange` | `ExchangesBoundedByUpdates` |
| `OneExchangeAtATime` | a provider has at most one exchange under way |
| `ClientsServe` | `ServesTokens`, the refinement of `TokenService` |
| `RotationsAreFollowed` | `RotationIsFollowed` |

The two clients share the proofs where they share the code: `TokensInv` speaks of
the promise in flight and of the exchanges, and only its last parts of the fields of
either. In `AccessToken` a key update or an older exchange may clear a promise that
is not its own; an exchange that is no longer in flight but has not ended is
*loose*, and each update sets at most one loose (`LooseByUpdates`), which is the
bound on a burst of requests. A token that is cached, or in the hands of a caller,
comes from an exchange that has ended, and tokens lapse only after that; so whoever
asks later is not given a token that had lapsed by then, which is a step of
`TokenService`. For the rotation of refresh tokens `Followed` says that, while no
key update, lost answer or seed is to blame, the credential that is presented, or
comes next, is one that the server accepts (`Good`), and that a client which keeps
what its constructor was given does not wear that out (`SeedServes`).
`RotationAssumption` is what is asked of deployments: a seed wears out only where
refresh tokens are issued, and never for client credentials.

`EnvelopeProofs` proves, for all manifests (any number of objects, splits and
KASes), pool sizes, allow lists, shares of any width, and one damaged part or none:

| Theorem | Property |
|---|---|
| `UnwrapRecoversTheKey` | `RecoversKey`, the refinement of `KeyRecovery` |
| `NoRewrapIsNeedless` | `NoNeedlessRewrap` |
| `OnlyTheWrittenOpens` | `OnlyTheWrittenIsRead` |
| `RefusalsHaveCauses` | `RefusalIsExplained` |
| `FewerSharesHideTheKey` | `SharesHideTheKey` |
| `EnvelopeRecovers` | the first two, of `unwrapKey` called by a reader |

`UnwrapInv` relates the pools of `unwrapKey` to what the KASes answered: a share
pool holds what is asked of its split and no more (`ShareInv`), splits are taken up
in order and one share of each that was opened is kept (`SplitInv`). From these every step is a step of
`KeyRecovery` or a stutter; that a refused split leaves one that is lost needs that
the pool empties only when all its objects were asked. `EnvelopeInv` passes on, from
stage to stage of reader and writer, what was checked: every assertion is signed
before the manifest is written, nothing is opened without the key, verified
assertions, the root and delivered segments hold. An assertion that is bound again
under a key in its header is only verified for a caller's key of the header's algorithm,
which a payload key, always HS256, is not; that is the exception of the theorem, and no
more. That keys come out right is
`keyMerge`, a fold of exclusive or over a sequence: the fold is determined by its
recursion, and a bit of the result is the parity of the shares that have it, shown
for every prefix by looking at the least that fails. Bytes are known by the random
strings they are made of (`KeySplit`), so shares that lack one split lack, or have
too much of, one of these strings.

`TdfWriterProofs` proves, for all segment sizes, contents, cuts of the content into
chunks and byte limits:

| Theorem | Property |
|---|---|
| `OnlyTheLastIsShort` | `EvenSegments` |
| `BackpressureHolds` | `PayloadQueueBound` |
| `FilesDescribeThemselves` | `FileDescribesItself` |

`pull` may be suspended at four places, and each relies on something else:
`WriterInv` says that it waits for content only while its buffer holds less than a
segment, that a short segment is only made when the source is at its end, that no
segment follows it (`ShortIsLast`), and that a piece of payload is enqueued only
into a queue with room (`OneSegmentWaits`).

That a file describes itself is said of the closed stream, and needs to be known of
it from the first header on. `FileInv` says, at each await, which pieces the output
has so far (received and queued taken together, so that the consumer's reads do not
change it), that the byte counters and the checksum are those of these pieces, and
that all the plaintext that was read is in a recorded segment or in the buffer
(`NothingIsLost`); a stream that errs or is cancelled is out of it for good. When
the stream closes this is a whole file (`FileOf`), and the rest is about such files,
of any number of segments: where each piece ends (`EndsAt`), that the two records
are all the reader finds in the last 1000 bytes (`Directory`), that their zip64
information is read for what was written in it (`RecordIsRead`), and so that the
places it gives are those between the headers and the data descriptors (`EntriesOf`).
`Ends`, which sums the sizes of pieces, is a recursive function: the proof first
shows that such sums exist for any number of pieces (by looking at the least number
for which they do not) and from then on uses only how each follows from the one
before; and that a run of pieces is as long wherever it occurs (`EndsShift`).

`ReaderProofs` proves, for all deployments, any number of calls, and every registry
and page size:

| Theorem | Property |
|---|---|
| `ClosedStaysClosed` | `ClosedIsFinal` |
| `CurrentObligations` | `ObligationsAreCurrent` |
| `ListsAreComplete` | `AllowListComplete` |
| `OverviewsAreTrue` | `OverviewIsTrue` |

`CallInv` adds that a reader whose state is `done` has its type resolved, so that
`resolveType`, which sets the state without looking, is past; and that the shared
field holds the obligations of the last complete decryption, after which a call of
`obligations` cannot have been made. `RegistryInv` adds `NoneSkipped`: while a list
is read, a server registered all along is in the list, or in the registry behind
the offset. Registering a server moves others back only, a page takes all up to
the next offset, and a removal empties the promise. `OverviewInv` says what a promise
of an overview stands for: that the directory was parsed, and that the manifest fits
or does not. The work is in the operators of `ZipReader`, for every archive
(`IsArchive`): however many of the three fields are saturated, the value at the
place that is counted for a field is the one that was left out of it (`LeftInOrder`,
`ValuesAreTrue`); no two pieces begin at one offset, so the header that is read is
the entry's (`PieceIsFound`, `LocatedIsTrue`); and all that is asked of a readable
archive is what the reader needs (`ReadableIsRead`). The lemmas about `Ends` are
those of `TdfWriterProofs` again, for the instance of `ZipReader` in the reader.

`SessionProofs` proves, for all bounds:

| Theorem | Property |
|---|---|
| `CodesSpentOnce` | `CodesAreSpentOnce` |
| `RequestsAreFound` | `RequestIsFound` |
| `KeysAreTheTokens` | `KeyIsTheTokens` |

The code writes a code to the sessions in `sessionStorage` before it sends it, but
these may be replaced by sessions that know nothing. `Remembers` therefore says
that sessions, in memory or stored, which know the request of a code that was sent
or is in hand have it among its used codes; the rest is that states are never used
again, so a request that is forgotten does not return. `KeyInv` says, for the other
two, that every request is known, in memory and stored, while no sessions with
requests were replaced (`AllKnown`); that sessions are of one key (`OneKey`); and
that an exchange, a login and the key the page signs with agree on it.

All of these need only the named assumptions on the constants, and `EvenFile` where
it says so. Every safety property of the passing runs is stated by a theorem. What is
only model-checked is liveness, under the fairness of section 4, which is out of the
prover's reach; and the properties of the violation runs, which do not hold.

## 6. Where code and comments disagree

The violation runs each show a disagreement with a comment of the code, which
`PROJECT.json` quotes.

* `MCDecryptStreamUneven`: for a manifest that gives segments sizes of their own,
  `encryptedOffset % slice[0].encryptedOffset` is the wrong place, and an intact
  segment is rejected. The SDK's own files have even segments.
* `MCTokensStale`: after a key update the token of the old key can be cached.
* `MCTokensLostRefresh`: a key update is said to use the cached refresh
  token; it drops it, and the one before it is refused by a rotating server.
* `MCEncryptPartialScope`: the policy is made before missing values are fetched.
  With values for some attributes, the key is split for all of them, and the
  policy names only those that came with values.

Met while modelling, without a run of their own. A second update with the same
key is said to be benign (`src/opentdf.ts` 350-352); during an exchange it drops
the promise in flight and a second exchange starts. The seed of a provider is to
be consumed once (`src/auth/oidc-refreshtoken-provider.ts` 58-60); it is deleted
after an `await`, and two first requests both consume it. A key that is fetched
for a kid is cached under that kid whatever key the KAS returned
(`tdf3/src/client/index.ts` 266), and a rejection is cached for good. `EncryptParamsBuilder.build` is said to make a
deep copy against "call-by-reference and async execution bugs"
(`tdf3/src/client/builders.ts` 488); the copy is shallow, two encryptions at once
with its parameters complete one scope twice, and the second fails with "Attribute
mismatch" (the last disjunct of `MismatchIsExplained`). A split may name one KAS twice, as a KAS
with several cached keys or as the KAS of two values of an `anyOf` attribute, and
decryption refuses such a file (`tdf3/src/tdf.ts` 728). `fetchKasPubKey` is said
to report the error of its second attempt (`src/access.ts` 205) and reports that
of the third. `exchangeForRefreshToken` stores
a token without its expiry (`src/auth/oidc.ts` 309), so that a JWT that two first
requests both exchange leaves a token with another one's expiry, which is served
when it has lapsed (`ServesTokens` counts such a token as fresh); an answer
lost after `delete this.data` (265) leaves a client with a client secret
presenting a used refresh token for good; the comment of the class wants the
public key in all token requests (83), the providers never enable it; the caller's
`concurrencyLimit` does not reach `unwrapKey` (`tdf3/src/tdf.ts` 1340), which
therefore always asks one KAS at a time; `byteLimit` counts output (638), its
comment says input (`src/opentdf.ts` 71).

Of the reader. The TDF client replaces an `allowList` the caller gave by the
fetched one when it has a platform, and without one throws "platformUrl is
required when allowedKases is empty" whatever was given
(`tdf3/src/client/index.ts` 813-819, said at 147 and 345 to happen when the list is
empty; `Decrypt` of `Envelope`). `AssertionVerificationKeys.DefaultKey` (`tdf3/src/assertions.ts`
305) is never used. With HS256 tags a segment of the older version would be hashed
as text by the writer and as bytes by the reader (`tdf3/src/tdf.ts` 369, 1001); the
client always asks for GMAC. An empty `allowedKASEndpoints` without a platform passes the first check
of `decrypt` and fails after the overview is read. `close` is to "Mark this reader
as closed" (`src/opentdf.ts` 233), but the other calls do not look at the state; a
source that fails leaves it at `closing`, and the branch of `close` for `init` is
unreachable. `ReadOptions.concurrencyLimit` is not used: `decrypt` passes 1 (544).
The legacy schedule goes on after an error or a cancel (`tdf3/src/tdf.ts` 1030).
`allPool` returns results in the order in which they settled
(`src/concurrency.ts` 35), and the metadata of a key is that of the first. Offsets
into the list of servers skip one when an earlier one is removed between two pages,
which is why `AllowListComplete` speaks of lists without removals; `listAttributes`
stops after 10 pages, the list of servers never.

Of assertions. With `jwk` or `x5c` in the header of a binding the caller's key is not
used (`tdf3/src/assertions.ts` 174-181; `tests/mocha/unit/assertions.spec.ts` 124:
"dummy key is ignored when JWK is present"); its algorithm is compared all the same.
`OnlyTheWrittenIsRead` makes an exception for assertions with such headers.

Of the sources. A read with a start and no end asks for `bytes=5`, which is no
range, and a 200 is not told from a 206 (`src/seekable.ts` 117-131); the delay also
follows the last attempt (103), and a body that breaks off is not asked for again
(106). A URL chunker that is a source of content is asked beyond its end and answers
with an error where `sourceToStream` expects no bytes (186, 91). A manifest of more
than 10 MB can be written and not read.

Of the sample login. Two calls of `loadSessions` that wait for the configuration
together overwrite each other's sessions, and a login is refused
(`web-app/src/session.ts` 200-207; the exception `overwritten`). A current session that was
rejected stays so until the page is loaded again, and an `?error=` query is never
taken away.

## 7. What is not modelled

* Generated protocol buffer code (`src/platform`, more than half of the lines under
  `src/lib/src`), the command line, tests and build files; of the sample application
  all but the login.
* Cryptography and encodings: pure functions over bytes. `Envelope` takes
  signatures to be records of what was signed and ciphers to open only with their
  key; whether a KAS grants a share is a free choice.
* `createZTDF` and the builders of `tdf3/src/client/builders.ts`, which copy
  options; DPoP proofs, a function of key, URL and nonce.
* The bytes of zip records beyond the fields a reader looks at; JSON.
* Memory and time, apart from the bounds on retained plaintext, the expiry of
  tokens and the order of attempts and delays.

## 8. Plan

Done: both decryption streams, key recovery, the writer with the archive its reader
finds, the token clients with one abstract service, the encryption, the reader with
the list of servers and the reads of a URL, the splitting of keys and the seal of a
file, the login of the sample application.
Next, in this order:

1. `Discovery`: the attribute pages of `src/policy/discovery.ts`.
2. A composition of `GrantPlan` and `Envelope`: which planned files the same SDK
   can open again, given the KASes that grant.
3. The order of session keys and the first request in the TDF client.

## 9. Running everything

    tlc -config MCDecryptStream.cfg MCDecryptStream
    tlapm SegmentSchedulerProofs.tla


`PROJECT.json` lists the runs with their modules and expected results, and the
theorems; every `*Proofs` module is checked in the same way. All runs together take
a few minutes.
