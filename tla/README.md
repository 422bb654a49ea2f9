# Specifications of mu_crypto_release

TLA+ models of this repository: the way the OneCrypto binary reaches its
consumers, the memory allocator it uses at runtime, its multi-processor hash, its
TLS connections, the functions of BaseCryptLib and TlsLib with the objects they
handle in both builds, cSHAKE256, and what replaces the C library. The
cryptography itself is in OpenSSL and MbedTLS, which are submodules and outside
these models.

## The system

OneCrypto is one crypto binary for every firmware phase.

| Component | State | Operations | Interacts with |
|---|---|---|---|
| **Image provider** (`OneCryptoLoaders/OneCryptoImageProviderMm.c`), in StandaloneMM | location, format and CRC of the resident image, found lazily; registered handler; ReadyToLock registration | driver entry, MMI handler (size query, chunk request), ReadyToLock notification | HOB list; the communication buffer, shared with the Normal World |
| **Image fetch** (`OneCryptoLoaders/OneCryptoLoaderDxeFromMm.c`), in DXE | CommBuffer and its recorded size, LocalImage, offset, expected size and CRC | `FetchImageFromMm`, `SendImageProviderRequest` | the provider, over `EFI_MM_COMMUNICATION2_PROTOCOL` |
| **Loaders** (`OneCryptoLoader{Dxe,DxeByProtocol,DxeFromMm,Mm}.c`) | dependency table, protocol buffer, cached RNG protocol | entry point; the services of the dependency table | firmware services; OneCryptoBin's entry function; the protocol database |
| **OneCryptoBin** (`OneCryptoBin/`) | private constructor protocol | `DxeEntry`, `MmEntry`, `CryptoEntry`, `NoSetupCryptoEntry` | loaders; OneCryptoCrtLib |
| **OneCryptoCrtLib** and the `*OnOneCrypto` libraries | pointer to the dependency table | forwards allocation, time, delay, debug and random numbers | the loader's table |
| **Runtime allocator** (`SysCall/RuntimeMemAllocation.c`, twice) | page table, search cursor, base of the data area | constructor, `malloc`, `realloc`, `free`, address change event | crypto code after ExitBootServices |
| **ParallelHash** (`Hash/CryptParallelHash.c`, `CryptDispatchAp*.c`) | per block: spin lock, completed flag, digest | `ParallelHash256HashAll`, `ParallelHashApExecute`, `DispatchBlockToAp` | application processors |
| **BaseCryptLib** (hashes, HMAC, HKDF, AES, Bn, Pk, X509, PKCS7, Rand, Pem), two providers | contexts and the provider's objects | one function per operation | OpenSSL or MbedTLS |
| **TlsLib** | a connection with two memory buffers | handshake, alerts, data, shutdown, configuration | OpenSSL |
| **cSHAKE256** (`Hash/CryptCShake256.c`, `CryptSha3.c`, `CryptXkcp.c`) | the sponge, a buffer with part of a block | init, update, final, hash-all | ParallelHash |
| **Null variants** of BaseCryptLib | none | every function refuses | builds that leave a service out |
| **SysCall** (C runtime, time, pool allocator) | none, or a header per block | conversions | the firmware |

What is hard here. The provider parses a buffer another world can rewrite while
it reads. The fetch adapts to a transport that tells it its size only by refusing
a request, and must end, in bounds and without a leak, whatever the answers say.
The loaders leave a pointer to their table in a library that outlives them, and
have a dozen places to fail in between. The allocator's table is walked by three
operations that must agree on where a block ends. The hash is computed by
processors that share nothing but one try-lock per block. A TLS call whose answer
does not fit is made again with the same input. Some five hundred functions create
and release objects of a provider any of whose calls may fail, and their error
paths are hardly ever run. The sponge and the calendar are arithmetic whose errors
sit at a block, a century or a 16-bit boundary. `PROJECT.json` lists
these hazards at the lines where they bite, with the properties that cover them.

## Modules

* `ImageProvider` - the provider. `ResidentImage` is the image the HOB lists lead
  to (FV3 before FV before FV2; in a volume the named file's PE32 section, else a
  guided section of the container file). The handler is three steps, split where
  the Normal World can write between two reads: `HandlerValidate` (with
  `HandlerQuiesce` for a buffer that cannot be answered), `HandlerSnapshot`, and
  `HandlerRespond`, which is one of `HandlerBadHeader`, `HandlerNotFound`,
  `HandlerTooLarge`, `HandlerServe`. `mmState` follows the entry point and
  ReadyToLock.
* `ProviderClients` - the provider with callers that send any request and rewrite
  the shared buffer at any moment.
* `ImageFetch` - the abstract promise: in one step, the resident image or an error.
* `ImageTransfer` - the provider composed with `FetchImageFromMm` and the
  transport. `dxePc` is the place in the C function; `commAlloc` is what is really
  allocated for CommBuffer, `commBufferAllocSize` what the code believes.
* `CryptoBoot` - the loader, OneCryptoBin, the dependency pointer and the random
  number requests of one environment; the loader is chosen in `Init`. Fetching
  from MM is one step here, which `ImageTransfer` refines.
* `RuntimeMem` - the allocator, with a client's view of its blocks (`blocks`)
  beside the table. `LookupFreeMemRegion` says what the two searches find;
  `RuntimeMemLoops` writes them as the loops of the code, with recursive functions.
  The loop that skips used pages does not stop at the end of the table
  (`RuntimeMemAllocation.c:166`): there it takes bytes of the data area for entries.
  These are a parameter (`behind`), and any of them may look used.
* `ParallelHash` - one `pc` per processor; a hash is two steps (`BeginHash` leaves
  a digest that is not whole, `FinishHash` completes it), so that a processor that
  looks in between is seen.
* `TlsConnection` - one connection of TlsLib: the SSL object (`ssl`), with the
  contents of its two memory BIOs, and one action per function of `TlsProcess.c`.
  What the SSL object reads, sends and returns is OpenSSL's and left open. The
  caller is the TLS driver: it repeats a call that lacked room (`retry`) before it
  does anything else but shut down or free, and hands in a handshake or alert
  packet only when it has taken what there was to send; otherwise the functions
  ignore the packet, as they do with the repeated one.
* `ProviderObjects` - runs one function of BaseCryptLib or TlsLib after another.
  A function is a sequence of the steps of `CallSteps`: make an object, borrow from
  one, hand it over, give it to the caller, free it, call the provider and go on at
  a label if it fails, set the result. The state is where the object of each pointer
  is (`place`), what the function will return, and whether it has given its answer.
  Functions come in families that share a context (an RSA key, a certificate stack,
  an HMAC context, a TLS connection): the caller makes it, uses it in any order and
  frees it, and its parts stay from call to call. Fault records name the kind, the
  family, the function and the pointer.
* The families, each function written from its C text with all its ways out:
  `OpensslX509`, `OpensslKeys` (RSA, OAEP, PBKDF2, PEM), `OpensslCurves` (EC, DH, big
  numbers), `OpensslPkcs7` (PKCS7, EKU, time stamps, Authenticode, signing),
  `OpensslSymmetric` (HMAC, HKDF, AES, GCM), `OpensslDigests` (hash contexts, random
  numbers, the entropy pool), `OpensslGlue` (default provider, random numbers from
  the time stamp counter), `TlsObjects` (TlsInit.c, TlsConfig.c), and for MbedTLS
  `MbedX509`, `MbedKeys`, `MbedSignatures`, `MbedSymmetric`, `MbedDigests`;
  `NullVariants` for the variants without an implementation; `OneCryptoLibs` for the
  libraries on the dependency table and the export lookup. A loop over a list is
  written for as many rounds as its objects need to meet (one element and the rest).
* `CShake256` - a Keccak context: the blocks absorbed so far (`A`), the buffer with
  old bytes in it, `num`. Absorbing a block appends it; the permutation is left out,
  so that equal states mean equal input. `FromEmptyBuffer` is the second half of
  `Sha3Update`, `AbsorbString` the encoding of a name or a customization string;
  `ShiftedBytes` is the shift by eight bits that `LeftEncode` repeats.
* `Clock` - the platform's clock as a calendar that is counted day by day, and
  `time`, `gmtime` and the comparison of dates as the two builds compute them, with
  the widths of their variables. What a date is (`IsDate`) and which instant it stands
  for (`DayNumber`, `SameInstant`) is written with the rule of leap years and without
  the tables and loops of the code. Its specification is `ClockSpec`.
* `CRuntime` - the string functions, `qsort`, `realloc`, `calloc` and the OID
  conversion, each asked every question of the instance.
* `MC*` - values for the constants that are not plain sets; `MCSysCall` also runs
  `CRuntime` and `Clock` beside each other. `*Proofs` - theorems; `SysCallProofs` has
  those of `RuntimeMem`, `RuntimeMemLoops` and `Clock`.

Operators whose comment begins with "Variant:" are wrong versions of the operator
after them, used to see that the properties notice.

## Runs

| Run | Shows | Bounds |
|---|---|---|
| `provider_clients` | `ResponseConfined`, `AnswersDescribeResident`, `LockedIsSilent` for every request and rewrite | images of up to 5 bytes (one above the limit that stands for MAX_UINT32 = 4); offsets inside, at and past the end; buffers shorter than the header, with no payload, smaller and larger than the image |
| `image_transfer` | `ReassembledIsResident`, `DeliveredIsResident`, `FetchRefinesSpec`, `FetchTerminates` | regions too small for the headers, with room for 0, 1, 2 and 5 payload bytes against a target of 3; every failure; one flipped payload byte, which the one-bit CRC of the instance detects as CRC32 detects any single damaged byte |
| `image_transfer_damaged` | `CopiesInBounds`, `RecordedSizeIsSafe`, `NeverGrows`, `NoBufferLeft` | response headers with sizes 0, 2 and 5, any status and GUID, at any response |
| `crypto_boot` | `InstalledIsUsable`, `StatusTellsDatabase`, `FailureLeavesNothing`, `LateRngIsFound` | the whole state space; no bound |
| `runtime_mem` | `NoOverlap`, `TableMatchesBlocks`, `RoomForRequest`, `ContentKept`, `LoopsFindLowestRun` | five pages of two bytes; requests from one to five pages and one too large; the cursor anywhere; up to three entries behind the table that look used |
| `runtime_mem_refusal` | **violated** `RefusedOnlyWithoutRegion` | as above |
| `parallel_hash` | `CombinesWholeDigests`, `CompletedIsFinal`, `FreedListsUntouched`, `HashReturns` | two application processors, one to three blocks, the last whole or not, three kinds of dispatch |
| `tls_connection` | `InputOnce`, `AnswersAreWhole`, `RetryOnlyFetches`, `ReportedSizeSuffices` | three packets of the peer, two sessions, answers of one or two bytes, buffers with no room, too little and enough |
| `provider_objects` | `NothingLeaked`, `NothingMisused`, `TruthfulResult`, `FailureGivesNothing` but for `KnownFaults` | 37 families of both builds, whole state space; no bound on the number of calls |
| `provider_objects_eku` | **violated** `TruthfulResult` | one function, nothing excepted |
| `cshake256` | `StreamIsKept`, `PiecesDoNotMatter`, `DigestTellsQuestion` | blocks of four bytes; names that are empty, short, make the preamble a whole number of blocks, or need two bytes of length; up to five bytes of data in pieces that end before, at and after a block; two lengths of the digest |
| `sys_call` | `AnswersAsInC`, `GmtimeTellsClock`, `DatesInOrder` | strings of up to three characters, lists of up to six elements with equal keys; 460 days from four dates, with the instants around 65536 seconds |

The instances are small because what can go wrong happens at boundaries: an
offset at the end, a region with no payload, a block that ends at the cursor, a
lock that is taken. The theorems below remove most of the bounds.

Deadlock is checked for `provider_objects` and `cshake256`, where a caller can always
go on, and not for the others: a fetch, a boot, a hash, a question comes to an end, or
the component may be left alone by its clients.

### What the violated runs show

* **Refusal** (`runtime_mem_refusal`). The second search of `LookupFreeMemRegion`
  ends one run too early and never tries a run that crosses the cursor, so that
  `malloc` can fail with enough free pages in a row. The first search is not affected.
* **EKUs** (`provider_objects_eku`). `VerifyEKUsInPkcs7Signature` of the MbedTLS
  build returns `FALSE`, which is `EFI_SUCCESS`, when it cannot read the signature
  or does not find the signer in it.

Four more configurations are kept to be run by hand; each ends with the
counterexample to the one property it names, which the code does not have:

* `CryptoBootSetupOrder.cfg` with `CryptoBoot`: `Docs/Architecture.md` says that the
  loader calls `OneCryptoCrtSetup()` before it invokes `CryptoEntry`. The entry
  function makes that call itself, and only when it is called for the second time.
* `ParallelHashNoMemory.cfg` with `ParallelHash`: `ParallelHash256HashAll` clears
  `CombinedInput` before it asks whether it was allocated.
* `TlsCloseNotify.cfg` with `TlsConnection`: `TlsShutdown` makes the SSL object quiet,
  and nothing makes it speak again: in the next session on the same connection
  `TlsCloseNotify` reports success and an empty packet, and the peer is never told.
  A connection that is freed and created anew is not affected.
* `CShake256Padding.cfg` with `MCCShake256`: a preamble that is a whole number of
  blocks gets a block of zeros more than the bytepad of SP 800-185
  (`CryptCShake256.c:133`). The digest is still one of all the input
  (`DigestTellsQuestion`), but not the standard's. It takes a customization of just
  the length that makes it so.

### Known exceptions

A property of `provider_objects` and `sys_call` would be of little use if one place
that breaks it hid all others. The places where the code is otherwise are listed one
by one, with the function and the pointer, in `MCProviderObjects` (`KnownFaults`),
`Clock` (`BeyondUint16`) and `CRuntime` (`KnownDifference`); everywhere else, and in
every other way at the same place, the properties hold. The ones that matter most:

* OpenSSL build: `Pkcs7GetSigners` frees certificates with their message and again
  with the stack (`CryptPkcs7VerifyCommon.c:395`), and is TRUE without memory;
  `Pkcs7GetCertificatesList` loses the chain it made (`:567`) and returns TRUE from
  its early errors; `X509GetValidity` is TRUE without times
  (`CryptX509.c:1602`); `sk_X509_push` is not checked (`:184`); the time stamp's
  imprint is not compared when its length differs (`CryptTs.c:318`); bytes of the
  entropy pool stay uninitialised when the random numbers fail (`rand_pool.c:114`).
* MbedTLS build: `Pkcs7Sign` frees the caller's certificates and a key that was not
  initialised; `Pkcs1v2Encrypt` frees an RSA context that was not; the PKCS7 parser
  leaks its list and uses an element it could not allocate
  (`CryptPkcs7VerifyCommon.c:541`); an HMAC context that could not be copied keeps
  pointers to freed buffers (`CryptHmac.c:172`); `X509ConstructCertificate` leaves
  the caller a pointer to a certificate it freed (`CryptX509.c:92`); GCM leaks the
  cipher when the key is refused.
* TLS: `TlsNew` loses InBio (`TlsInit.c:222`), `TlsSetServerName` never frees its
  context, and `TlsSetVersion`, `TlsSetSessionId` and `TlsGetKeyMaterial` report
  success for what the provider refused.
* C runtime: `strncasecmp` looks for the end of the first string only; `strncpy`
  writes a 0 one byte behind those it was asked for when the source has as many
  characters or more (`CrtWrapper.c:287-293`), does not fill up a shorter one with
  zeros as C does, and copies fewer than `MAX_STRING_SIZE` characters;
  `isspace` knows the blank only; `qsort` leaves the list as it is without memory; OID
  numbers with bit 7 set or from 16384 on are encoded wrongly. MbedTLS's `gmtime`
  keeps the seconds of a day and the days since the epoch in 16 bits.
* The Null variant of `BigNumCmp` returns 0, which means equal; `NanoSecondDelay`
  of the OneCrypto timer library returns at once.

Two behaviours are in the models, and the properties are as strong as they leave room
for:

* The loaders end with `EFI_SUCCESS` and without a protocol when `HandleProtocol`
  succeeds with a NULL interface (`OneCryptoLoaderDxe.c:332`) or the entry function
  answers the size query with success (`:358`). `StatusTellsDatabase` therefore asks
  for the protocol in the database only where one was built, and never behind an error.
* `FetchImageFromMm` compares the size a response reports with the size it first asked
  for, and not with the request a retry has shrunk (`OneCryptoLoaderDxeFromMm.c:675`),
  nor with the size of the message. A provider whose header is damaged can make it copy
  bytes that CommBuffer held before. `CopiesInBounds` says that such a copy stays within
  the allocation; that no such byte is put together is `ReassembledIsResident`, which
  supposes intact headers, since otherwise only the CRC is in the way.

Three comments disagree with the code without a run of their own: the provider
computes the CRC in every build (`OneCryptoImageProviderMm.c:61`); the chunk
responses' GUID is not compared (`OneCryptoLoaderDxeFromMm.c:594`); the DXE
loaders look for the RNG protocol until they find it, not once
(`OneCryptoLoaderDxe.c:74`).

## Fairness

`FetchTerminates` assumes weak fairness of the DXE code, of the transport and,
while it holds a request, of the handler: `Communicate` is synchronous, one thread
of control goes through the three, and it is never abandoned. Driver events and
damage have no fairness. `HashReturns` assumes weak fairness of each processor:
they run on hardware of their own. No fairness is assumed of the spin locks:
a processor whose try-lock fails goes on to the next block or starts over.

## Theorems

The proofs hold for every value of the constants under the assumptions named in
the modules that declare them: header sizes and the target are positive and sizes
are natural numbers (`ImageProvider`, `ImageTransfer`), the largest buffer is a
number (`ProviderClients`), a page has at least a byte and the scratch buffer at
least a page (`RuntimeMem`), processors and lengths are sets without overlap
(`ParallelHash`), flights and buffers have sizes (`TlsConnection`), a block has 2 to
255 bytes and fits the buffer of a context, a `UINTN` has at most 8 bytes, names and
customizations are bytes and no string is so long that its length in bits overflows a
`UINTN` (`CShake256`: such a string does not fit in the address space), the clock starts
at a date since the epoch whose local and universal time are the same instant, and is
looked at at least once a day (`Clock`). One assumption is about cryptography: `CrcDetects` says that the CRC
of an image of the HOB lists differs from that of the same image with one byte
changed, which CRC-32 guarantees. TLC evaluates each of them on its runs.

* `ImageTransferProofs`. `SafeInvariant` is inductive. Bounds on copies do not
  follow from the last response alone: they need the relation between the recorded
  size, the allocation and the request (`CommBufferInv`, `RequestInv`), the state
  of the reassembly between chunks (`ReassemblyInv`), which buffers are held at
  each place (`HeapInv`), the alternation of the two sides, and that the
  provider's cached image is the one the HOB lists lead to. From it:
  `TypeCorrect`, `CopiesStayInBounds`, `RecordedSizeStaysSafe`,
  `CommBufferNeverGrows`, `NoBufferIsLeft`.

  What is delivered needs a second invariant on top of it, `DeliveryInvariant`. As
  long as the damage is one the CRC is there for (at most one payload byte, no
  header), a response in CommBuffer has the resident image's header and lies within
  it (`HeaderInv`), what the size query left is that header (`ExpectedInv`), and all
  the bytes that differ from the resident image, in the reassembled part or still in
  CommBuffer, are the same byte, and there is none before the first fault
  (`DamageInv`). This is not true of a request that looks like a response:
  `MessageInv` says that a request carries the offset of the loop and no GUID.
  `ReassembledAlwaysResident` and `DeliveredAlwaysResident` follow, and so does
  `TransferImplementsFetch`: the step that compares the CRCs is the abstract fetch,
  every other one a stutter or a failure.
  It supposes what the property does, intact headers and at most one damaged byte.
* `ProviderClientsProofs`, for callers that rewrite the shared buffer between any two
  reads. `ClientInvariant`: once validated, the size the handler works with is that
  of the buffer although `CommBufferSize` can change (`HandlerInv`), the buffer shows
  an answer only after the handler wrote it, and the cached image and CRC are those
  of the image the HOB lists lead to. `ImageProviderProofs` holds the lemmas both
  rest on: what the searches of firmware volumes and HOB lists return, that there is
  one resident image, and what a served chunk contains (`ServeFacts`).
* `TlsConnectionProofs`. `ConnectionInvariant` joins the type, `Waiting` (a call that
  must be repeated has its answer in OutBio, and told its size) and the order of the
  input. `TakesKeeps` and its companions say that whatever OpenSSL does with its
  input (read it, keep it, fail) leaves the sequence of what was read and what waits
  the same. From it `InputReachesSslOnce`, `AnswersAlwaysWhole` and the two action
  properties `RetriesOnlyFetch` and `ReportedSizeIsEnough`.
* `CShake256Proofs`. The bytes a context was given are those of its blocks, followed
  by the used part of its buffer (`Stream`). `UpdateStream`: `Sha3Update` adds its data
  to them, in each of its three cases; this rests on the division of positions by the
  rate (`DivMod`, `BytesConcat`, `AbsorbBytes`). `StreamDetermines`: two contexts given
  the same bytes have the same blocks and the same used part, whatever else their
  buffers hold, so `Sha3Final` gives the same digest (`FinalDetermined`). From the
  invariant: `StreamAlwaysKept` and `PiecesNeverMatter`.

  `DigestAlwaysTells` goes the other way, from the absorbed blocks back to the name, the
  customization and the data. The length asked for is not absorbed, so it is not among
  what they tell: a longer digest of the same question begins with the shorter. Where
  the padding of the last block begins can be read off that block, so the digest tells
  the bytes and whether they were padded as cSHAKE or as SHAKE (`LastBlockTells`,
  `FinalTells`). The front of the bytes is an encoded number, whose bytes tell the
  number (`BytesTell`, `LeftEncodeTells`); it says where the name ends, and so on for
  the customization (`PartTells`), after which the padding of the preamble is known and
  what is left is the data (`HeaderTells`). As in the model, the permutation itself has
  no collisions.
* `CryptoBootProofs`. `BootInv` says what is held at each place (`HeldInv`), that
  the second call of the entry function has set pointer and protocol
  (`ConstructedInv`), from where on there is a protocol (`BuiltInv`), and that
  installation comes last (`InstallInv`). `StatusAlwaysTells` is what the code has of
  "success means installed": it holds of a loader that built a protocol.
* `SysCallProofs`, the heap. `MemInv` joins the type, the exact correspondence of the
  table and the blocks (`TableInv`), room and content. It needs two lemmas on the
  search (what it returns is free and inside the table) and `DataAreaFits`.
  `LoopsAlwaysFindLowest` says that the loops of the code compute that search: the
  jump over used pages passes no free run of the table (`SkipPassesNoRun`), also when
  it lands behind the table, and a loop finds what the rest of it finds from where the
  jump lands (`AttemptStep`). It holds for any finite set of entries behind the table
  that look used (`EntriesBehind`); were all of memory to look used, the skip would
  not end.
* `SysCallProofs`, time. `ClockInv` says that universal and local time stay the same
  instant while both are counted on day by day, that the last reading lies before the
  clock unless no time has passed, and that `struct tm` shows it. The table of days in
  the code is the calendar's (`MonthDays`), the year loops of `CalculateTimeT` and
  `gmtime` count the days of the years (`DaysOfYears`, `YearFound`), the carry of the
  time zone into the day is right (`SplitDays`), and in the MbedTLS build the numbers
  fit their `UINT16` unless `BeyondUint16` says so (`Narrow`). From it
  `TellsClock` and, since later dates are greater field by field
  (`DatesAreInstants`), `InOrder`. The run looks at 460 days from four dates; the
  theorems are about every date.
* Recursive functions. What a loop computes is shown by the least counterexample: the
  inputs for which it would be wrong are a set of numbers, which has a least element
  (`Minimum`, from the well-foundedness of `<`), and the step of the loop leads from it
  to a smaller one. That the recursive definition has a value at all is shown the same
  way, by giving a function that takes its steps (`FoundIsLoop`, `YearAndDayIsLoop`).
* `ParallelHashProofs`. `HashInv` says who holds which lock (`LockInv`), that a
  digest is whole or its lock is held by the processor that writes it
  (`DigestInv`), that the boot processor's pass has only completed blocks behind
  it (`PassInv`), and who may still look at the lists (`HeapInv`).

Only model-checked:

* `FetchTerminates` and `HashReturns`: fairness is outside the prover.
* `AnswersAsInC`: `qsort` and `strncasecmp` are recursive operators over lists and
  strings, which the prover cannot expand, and the other functions of the module are
  compared with C one by one, over all short strings.
* `NothingLeaked`, `NothingMisused`, `TruthfulResult` and `FailureGivesNothing` of
  `ProviderObjects`: they are properties of the listed functions, not of the steps
  functions are made of; there is no invariant smaller than the list of the states
  each of them can reach, which is what TLC computes.

## What the models leave out

* `ASSERT` is compiled out, as in a RELEASE build; debug output is left out.
* `MmiHandlerUnRegister` is assumed to succeed.
* Early returns of the DXE loaders leave the dependency table allocated, and the
  plain DXE loader keeps image and protocol when the installation fails; the
  models show this state, no property forbids it.
* `malloc(0)`, which returns an address that is not marked; pointers from before
  the address change, which are never converted: the client of the model does not
  use them.
* The byte layout of PE files and firmware volumes, guided section decoding, and
  the cryptography: one step with a result or an error.
* In `TlsConnection`: argument checks, and `TlsHandleAlert` without memory for the
  buffer it reads into. Bytes left in the BIOs by `TlsShutdown` are kept, as the code
  keeps them; no property forbids it.
* In `ProviderObjects`: the content of objects. Whether a certificate, a number or a
  padding is good is a choice, so these modules say what is freed, returned and
  answered, and not what a signature means. Byte counts are left out with it, among
  them the 16-bit lengths of `WrapPkcs7Data`, the subtraction in
  `AuthenticodeVerify` (`CryptAuthenticode.c:174`), and the writer that copies a
  serial number without asking for room (`CryptPkcs7Sign.c:233`).
* A clock whose local date lies before the epoch although the universal one does not.
* `mktime` (which takes `tm_year` and `tm_mon` for the year and month of a date,
  `TimerWrapper.c:155`, while `CrtLibSupport.h` counts them from 1900 and from
  January), `inet_pton`, `strtol`, `sscanf`, `snprintf` and the functions
  of the C runtime that only return an error.
* The driver entry libraries, which forward; the stubs of the OpenSSL library that
  only fail; DebugLib; generated headers and tables (a large part of the lines under
  `OpensslGen` and the MbedTLS configuration are constants, not code); build plugins.

## Plan

Done: provider, transfer, boot, runtime allocator and its search loops, parallel hash,
TLS connection, cSHAKE256 and the clock, with proofs; the provider's objects in both
builds and the C runtime, model-checked.

1. Proofs: that a step of `ProviderObjects` that frees an object leaves no pointer to
   it, over any families; that `qsort` sorts, with its recursion as a function.
2. The numbers inside PKCS7: the lengths of the wrapping, the writer's buffer, the
   order of the chain that `Pkcs7GetCertificatesList` returns.
3. `mktime` and `inet_pton` against reference definitions.
