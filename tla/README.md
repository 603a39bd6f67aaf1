# tpm-rs in TLA+

tpm-rs is a TPM 2.0 software stack in `no_std` Rust: a client that builds
commands and takes responses apart, a server that executes commands, and the
crates both rest on. This directory holds TLA+ modules of its parts, the TLC
configurations that check them on small instances, and TLAPS proofs of what
matters most about the server, the client, the two together, the codec, the lists and attribute
words, the transport, the power-up of the simulator and the DRBG helpers.
`PROJECT.json` maps every definition to the lines of `src/` it stands for.

To check: `tlc -config server.cfg MCTpmServer.tla` (likewise for each `.cfg`
and the `MC` module it belongs to, see "The runs"), and
`tlapm TpmServerProofs.tla` (likewise `TpmClientProofs`, `TpmSystemProofs`,
`TpmDeriveProofs`, `TpmCodecProofs`, `TpmSimulatorProofs`, `TpmValueProofs` and
`TpmFlattenProofs`).

## The system

| Component | Code | State it keeps | Operations |
|---|---|---|---|
| Server command execution | `server/src/tpmctx.rs`, `req_resp.rs`, `handler/` | `TpmContext` (the crypto); per call a request cursor, a response cursor | `TpmContext::new`, `execute_command_separate`, `execute_command_in_place` |
| Request and response buffers | `server/src/buffers`, `platform/buffer.rs` | the caller's memory, lent for a call | `read_into`, `write`, `write_callback`; one shared buffer (`InOutBuffer`) or two (`SeparateBuffers`) |
| GetRandom and the DRBG | `handler/random.rs`, `crypto.rs`, `platform/crypto/` | the platform's DRBG and its reseed counter | `try_get_random`, `requires_reseeding`, `reseed`, `fill_bytes`; the helpers that derive `fill_bytes` from words |
| Client command runner | `client/src/lib.rs` | a command and a response buffer of 4 KiB, on the stack of the call | `run_command`, `run_command_with_handles`; `Tpm::transact` is the caller's |
| Sessions | `client/src/sessions` | a password per session | `get_auth_command`, `validate_auth_response`, zero to three in an `AuthorizationArea` |
| Marshalable | `marshalable`, `marshalable-derive` | `UnmarshalBuf`, what of a buffer is still to be read | `try_marshal`, `try_unmarshal` of primitives, and what the macro generates for structs, arrays with a length attribute, enums, Tpm2bs |
| Base types and commands | `base/src` | the TPM's structures: lists with a count, Tpm2bs, unions, attribute words, handles | `new`, `add`, `from_bytes`, `from_struct`, `to_struct`, bit fields, range checks |
| Union sizes | `unionify`, `unionify-derive` | none (compile time) | `UNION_SIZE` |
| Error codes | `errors/src` | none | codes composed from a base, a number and a mask, and taken apart |
| Simulator transport | `client/tests/simulator_tests.rs` | two TCP connections, a child process | power-up sequence with retries, `transact` |

How they interact. The client hands a command and an empty response buffer to a
`Tpm`, which is a callback: TCP to a simulator in the tests, and in `TpmSystem`
the server itself. The server reads fields through its cursor, calls one handler,
and the handler calls back: `write_callback` lends a range of the response to a
closure that lets the DRBG fill it. Everything runs in the caller's thread, and
nothing is persisted, so inside a call there are no threads to interleave and nothing to recover
from a crash. The exception is the simulator transport, where processes and
connections live and die on their own. What is hard here is something else:

- **Aliasing.** In place, each byte of the response overwrites a byte of the
  request, and the order of reads and writes decides whether the command survives.
- **Partial failure.** A command fails in the middle of its response: what it
  has written must not get out, and what it returns must be true.
- **Boundaries.** Sizes come from the header, from the slice, from the request
  and from the type, and any two of them may differ by one.
- **A TPM that may answer anything.** The client unmarshals a response whose
  parts have no separators, in an order that depends on the response's own tag.
- **Two encodings of one thing.** Client and server, and marshal and unmarshal,
  are written separately and have to agree.
- **What a failure leaves behind.** A connection survives a `transact` that fails, and
  with it half a command or an unread answer; ports survive the process that had them.
- **Stale data.** Entries beyond a list's count, a reseed counter left over from
  an earlier command, the request's own header in an error response.

What makes each component correct, in a sentence:

- *Server*: every request gets the answer it deserves, the same in both buffer
  arrangements, and no other byte of the caller's memory changes.
- *GetRandom*: the DRBG never fills when it wants reseeding, and no error carries
  random bytes.
- *Client*: what is sent is the command, what is accepted is exactly a sound
  response, and the TPM's error code is the call's error.
- *Client with server*: they agree on sizes and on errors, and every call
  returns.
- *Marshalable and base types*: a value arrives as it was sent, whatever is
  accepted is marshaled back to the bytes it came from, a part of a message is
  never taken for the whole, and every struct fits its Tpm2b.
- *Lists, words, codes*: a list is a bounded sequence, and equal lists are those with
  equal elements; a field of an attribute word is set without touching the others; a
  composed code is taken apart into what it was composed of.
- *DRBG helpers*: `dest` is full, of the bytes drawn, in their order, and the
  additional input goes into one draw.
- *Transport*: until a call fails on a connection, each success is the whole answer to
  the command given; a TPM is handed to a test only after a complete power-up.

The hazards, line by line, with the properties that watch them, are in
`PROJECT.json`.

## The modules

| Module | Models | Kind |
|---|---|---|
| `TpmWire` | header offsets, codes, fields as bytes that know their origin | data |
| `TpmService` | what the server promises: one answer per request, a function of the request and the room | abstract specification |
| `TpmServer` | `TpmContext`, both buffer arrangements, GetRandom over a DRBG | machine |
| `TpmServerProofs` | the inductive invariant and what follows from it | proofs |
| `TpmBytes` | big-endian integers and `UnmarshalBuf` over sequences of numbers | data |
| `TpmCall` | what `run_command_with_handles` promises: the TPM asked once with the whole command or not at all, an outcome that follows from job and answer | abstract specification |
| `TpmClient` | `run_command_with_handles` with its sessions | machine |
| `TpmClientProofs` | that reading from the front accepts exactly the well-formed responses; that what is sent is the command, and is sent when it fits; the refinement of `TpmCall` | proofs |
| `TpmSystem` | the client with the server for its `Tpm` | composition (extends `TpmClient`, instantiates `TpmServer`) |
| `TpmSystemProofs` | that they agree on sizes and errors, and who panics | proofs (extends `TpmClientProofs`, instantiates `TpmServerProofs`) |
| `TpmMarshal` | the types there are and their memory layout, the impls of integers, byte arrays and Tpm2bs, and what a field is from the fields before it | pure operators |
| `TpmDerive` | the impls that the derive macro generates for a struct, an enum or a counted array, from those of its fields | pure operators |
| `TpmDerivable` | what the macro accepts, and the values of it, from what it accepts of the fields | pure operators |
| `TpmDeriveProofs` | that generated impls read what they write if those of the fields do, and that types have room in memory for what they take on the wire | proofs |
| `TpmTypes` | the structures of `base` and its commands as `TpmMarshal`'s types | data |
| `TpmCodec` | a value marshaled, carried, damaged, unmarshaled and marshaled again | machine (instantiates `TpmDerive` and `TpmDerivable` once for each level of nesting) |
| `TpmCodecProofs` | that a value arrives, a cut message does not, and what is accepted is marshaled back the same | proofs (instantiates `TpmDeriveProofs` likewise) |
| `TpmSequence` | what a list promises: a bounded sequence that grows at its end | abstract specification |
| `TpmLists` | `impl_tpml` and the derived `Marshalable` of a list: count and array | machine |
| `TpmBits` | a u32 as the set of its bits | data |
| `TpmAttributes` | `TpmaNv` and `TpmaCc`: fields of several bits between flags | machine |
| `TpmErrorCodes` | every error code: made, and read back | machine |
| `TpmDrbgHelpers` | draws made of other draws | machine |
| `TpmValueProofs` | of lists: the invariant, equality, where a panic can come from, the refinement of `TpmSequence`; of attribute words: that fields and flags keep apart; of draws: that the additional input is used once, and that `dest` is filled in order | proofs |
| `TpmExchange` | what a `Tpm` behind a connection promises | abstract specification |
| `TpmTransport` | `TcpTpm::transact` over two byte streams, and the simulator's TPM port | machine |
| `TpmSimulator` | `run_tpm_simulator`: processes, ports, power-up with retries | composition (extends `TpmTransport`) |
| `TpmSimulatorProofs` | that the streams stay in step, the refinement of `TpmExchange`, and that a test gets its own simulator, powered up in order | proofs |
| `TpmFlattenProofs` | what joining the parts of a sequence gives, for the proofs about commands and draws | lemmas |
| `MC...` | the instances TLC checks | |

Operators named "Faulty ..." are what a plausible bug would make of the definition
that follows them; no specification uses them.

### TpmServer and TpmService

A byte of memory is a record: who put it there, of which value, and at which
place of that value's encoding. A field decodes to a value only if its bytes are the bytes
of that value in order; from anything else `from_be_bytes` may produce any of the
values at hand. That is what makes aliasing visible: a request read after the server
has written to it decodes to something else.

`mem` is the caller's arena, of which it lends `req.cap` bytes; in place, the
request is its first `req.len` bytes. `pc` names the next fallible step of
`execute_command`, and each read, comparison, reservation, DRBG call and write is
an action. `reqOff` and `rspOff` are the cursor's offsets. `drbg` counts
the fills left before reseeding is required. `Submit` and `Collect` are the
call and its return. `DrbgFails` is `todo!()` in the handler: the context is gone and
the platform may create another (`Restart`, `New`). What a failing fill may have written of
the reserved range is left out, since after a panic nobody is promised anything of the response. `Response::write` is
not called anywhere and has no action.

`TpmService` has no memory and no steps: `Reply(request)` says which code a request
deserves and which bytes the caller may rely on. The refinement maps a call in
progress to "busy", a return to "answered", a panic to a lost service, which the
service allows only for a request that was about to succeed.

### TpmClient and TpmCall

A job is what the type and value arguments of `run_command_with_handles` come to:
the marshaled fields of handles and parameters in the order the derive writes them,
the passwords, and the shape of the response (nothing, a u32, a Tpm2b). A field carries
its refusal: a primitive that has no room is `Memory`, the contents of a Tpm2b that
have none are a panic, as the slice in its `try_marshal` is. `cmd` is
`cmd_buffer[..written]`; `Patch` writes the size of the authorization area
and the header over their placeholders. `Transact(r)` lets the TPM write any of
`Responses` to the front of the zeroed response buffer. `rest` is the
`UnmarshalBuf`, taken apart by `ReadHandles`, `ReadParamSize`, `ReadResp`,
`ReadSession` and `Finish`.

`TpmCall` has five phases and no buffers. `Phase` maps the steps that marshal to "called", the
steps that read a response to "answered"; the step that writes the final size is `Ask`. Its constants
are operators (`Command`, `WellFormed`, `Reading`), for which the instance `Promise` has those of
`TpmClient`: what the command is and which answers are sound is said once, and how it comes
about is left to the client. `Fail` includes a `Tpm` that panics, as the server can.

### TpmSystem

`Enter` is the client's `transact` calling the server with the slice it was given,
`Leave` the return: the server's bytes become numbers again, with random ones for
the DRBG's. `Unwind` is a panic of the server that ends the client's call. The client
stands still while the server runs, since both are one thread. The repository
has no such `Tpm`; it has its two halves, and they are meant to meet.

### TpmMarshal, TpmDerive, TpmDerivable, TpmTypes, TpmCodec

A type is a record of how it is built, with its size and alignment in memory and its default.
`LeafMarshal` and `LeafUnmarshal` are the impls that `marshalable` and `tpm2b_simple` have
for integers, byte arrays and Tpm2bs. The macro generates an impl out of those of the fields, and `TpmDerive` does
the same: its constants are the impls one level down, and `Writes` and `Reads` go field by field, each
from what the fields before have left (`Refusal`, `Resolve`: a count says how many entries of an array
there are, a selector which variant of a union), including the index past an array that panics. `TpmDerivable` says in
the same way which types the macro accepts, which values they have (`IsValue`), and which a public count makes
of them that say more than there is (`Overcounted`), in whatever field, variant or entry the count is. `TpmCodec` has eight instances of
each, since `GetCapabilityResp` nests eight deep: the response, its enum, the variant, the list in it, the list's array,
the policies, the hash in one and the variant of that. A type that is neither struct nor array passes through a level unchanged.

The three hand-written impls (`TpmsAttest`, `TpmtPublic`, `TpmtSensitive`), which marshal an enum's selector away
from its variant, are built by `Apart`. A value keeps the whole array behind a count,
so that entries beyond it are there to be mistaken for counted ones; `Seen` leaves them out. `Packed` and `UnionSize` are
the layout of `repr(C)` on a target where integers are aligned to their size.

`TpmCodec` starts with a value of a type, marshals it into a buffer as long as the value is in memory, lets a medium cut the bytes
anywhere or change one, unmarshals, and marshals again; or takes the value through
its holder. An overcounted value goes no further than "refused", be it an error or the panic of the index, and
is not held: `MarshalsWhatItCounts` says that this happens to those values and to no others. The types, and the values of each that are sent, are constants; `TypesAssumption` says
that the macro accepts the ones and that the others are values, overcounted or not, and TLC evaluates it for the types and values
that `MCTpmCodec` builds from `TpmTypes`.

### TpmLists and TpmSequence

`count` and `entries` are the two fields, `list` says of which of the lists for which `impl_tpml` is
used. What an entry is stays open: `Lists` has the entries of each list, and `Outcomes` what the `try_marshal` of
each may come to, over all buffers: success, `Memory`, or a panic. An entry of `TpmlDigest` panics where
a short buffer ends inside it; an entry of `TpmlPcrSelection` whose public `sizeof_select` is beyond
its array is never written at all. `Marshal` is the loop over the entries with its `?`: it ends
at the first entry that fails, for want of room, or at the index past the array. `Receive` is `try_unmarshal` of a message with any
count and any entries, ended by a refusal of the next entry's own (`refusals`). Only `TpmlTaggedTpmProperty` has
public fields, for which `SetCount` and `SetEntry` let the owner write to either.

`wanted` is a history variable: what the last operation asked for. It is there for
the refinement, in which the list is `Slice`, an operation either makes the list what was asked
for or refuses and changes nothing, and a panic comes from an entry that is shown or from
the owner of public fields. `PanicsOnlyInEntries` says it of the list alone: with private fields, the list's own
index stays within its array, and a panic is an entry's. The derived `PartialEq` compares the array to its end, so
that equality of lists rests on nothing stale being left behind the count
(`EqualMeansSameElements`).

`MCTpmValues` takes the entries from `TpmMarshal` and `TpmDerive`: `OutcomesAssumption` and `RefusalsAssumption` have TLC
compute what marshaling each in every short buffer, and unmarshaling short messages, comes to, and compare it
with `Outcomes` and `Lists`.

### TpmAttributes, TpmErrorCodes, TpmDrbgHelpers

A word is the set of its bits, so that `&`, `|`, `!` and shifts are what they are in Rust at all
32 positions. `flags` and `fields` remember what the owner has set; the word must agree with
them. `code` and `meant` are a code and what it was made of; each step makes
another code, and the action property `ErrorsKeptApart` compares two that follow
each other, hence any two.

In `TpmDrbgHelpers` a byte drawn knows its draw and its place there. `native` says what the DRBG draws
itself, which decides through which helpers a request goes. A fill of no bytes makes
no draw and drops the additional input without a word.

### TpmTransport, TpmSimulator, TpmExchange

A command on the wire is its header and its body in pieces, an answer a sequence
of words; each knows the call it belongs to, which neither side can see. `Write` takes any
part of a command, or none, as one `write_vectored` may; what was taken stays written. The nine bytes of
`TcpTpmHeader` are one piece: a write that ends inside them, after which the simulator would take a length from parts of two headers, is
left out, and nothing is promised after a command that was cut. `ReadSize`,
`ReadBody` and `ReadTrailer` are `read_exact`s, `ReadFails` is their failure at the end of a
stream that nobody adds to. The simulator takes a header and as many pieces as it
announces for a command, whatever they belong to, and answers it; what is no header
makes it hang up.

`TpmSimulator` adds the processes. `mine` is the simulator of this test and `prev` the one of a
test before, which `Child::kill` has stopped but which may still have the ports;
`mine` then exits, while the client's connection is accepted and answered by nobody. `acted`
holds the last four signals on which this simulator has acted, `SignalFails` includes a
signal that was acted on and whose answer was lost. It is never disabled, so that a signal to a simulator which
is dying comes back by assumption: `RunReturns` is about the retries, and it is `OwnSimulator` that says what a
simulator still dying can do to the next test. Tests run one at a time, as
the header of `simulator_tests.rs` demands.

`TpmExchange` promises an answer to the command given until a call has failed on the
connection, and nothing after that. It promises no more because there is no more:
after an answer that did not fit, the next call reads that answer's tag as a size
and fails (`OverlongNotMistaken`), but the one after it may read a zero as a size
and return success with an untouched response buffer, and a command that was cut short
is completed by the next one, whose caller may wait for ever.

## The runs

| Run | Instance and bounds | Shows |
|---|---|---|
| `server` | arena of 14 bytes; capacities 0, 5, 9–13 and lengths 1–13 around each boundary `execute_command` tests (2, 6, 10, 12); sizes, codes and counts right and wrong; a DRBG of two fills of two bytes that may fail | `TypeOK`, `RequestIntactUntilRead`, `OnlyResponseWritten`, `NoRandomBytesOnError`, `NeverFillsUnseeded`, and that the server implements `TpmService`, fairness included |
| `server_error_size` | same, DRBG without internal errors | a *violation*: an error returns ten although four bytes were written |
| `server_panic` | same | a *violation*: a fill the DRBG refuses is a panic |
| `client` | buffers of 40 bytes; commands of every length around 40, cut in every kind of field; up to three sessions; over six hundred responses | `SentCommandIsJob`, `RefusedIffTooLarge`, `AcceptsExactlyWellFormed`, `ErrorCodeWins`, and that the client implements `TpmCall` |
| `client_short_size` | same | a *violation*: a response size below 10 panics the client |
| `client_large_command` | same | a *violation*: a command that ends just past the buffer panics |
| `system` | buffers of 40 bytes; GetRandom of 0–4, 31 and 65535 bytes with and without a session, and a command without a handler; random bytes 0, 1, 2 | `SizesAgree`, `ServerErrorsArrive`, `PanicsOnlyWithServer`, `CallsComeBack`, and that the client still implements `TpmCall` |
| `system_get_random` | same | a *violation*: the client cannot read the server's answer to GetRandom |
| `simulator` | three commands on a connection, of one and two pieces; a buffer of two words, answers of two and three, whose words pass for a trailer, a size and too large a size; any number of tests one after the other | `SimulatorTypeOK`, `PoweredUpInOrder`, `OwnSimulator`, `OverlongNotMistaken`, `CallComesBack`, `RunReturns`, and that the transport implements `TpmExchange` |
| `values` | three lists of up to three entries, of two or three kinds, among them a Tpm2b and one with a count beyond its array, given up to four and announced with up to five; five values for each field and six flags; all error codes; draws of 0 to 20 bytes by three kinds of DRBG | the lists implement `TpmSequence`, `EqualMeansSameElements`, `PanicsOnlyInEntries`, `FieldsKeepApart`, `OnlyWarningsWarn`, `ParameterErrorsNamedBack`, `ErrorsKeptApart`, `FilledInOrder`, `InputUsedOnce` |
| `error_codes` | all error codes | a *violation*: the error of a handle is read back as that of a session |
| `codec` | twenty-two types; digests of 2–5 bytes, buffers of 2–4, lists of one or two; each part empty, single and full, each public count one past its array, and each variant full at once; cut at every length, each byte changed to 0, 3 and 127 | `ArrivesIntact`, `HolderHolds`, `MarshalsWhatItCounts`, `ReadsBackTheSame`, `CutIsNoticed` |

Why the bounds are enough. The server and the client compare lengths with constants
and with one another; no loop depends on a length other than the number of fields and
sessions, so that an instance with a length on both sides of each comparison takes
every branch, in every order that a call can. The server's proofs take the bounds
away altogether. The buffers of the client are 40 bytes rather than 4096, which keeps
every relation between a command's parts and the end of the buffer. In the codec the
capacities are a few bytes: each is large enough that an array has an entry behind the
counted ones and a Tpm2b a byte behind its contents; one past an array is as good as any other count beyond it. `HolderHolds` depends on
the sizes themselves, of which the run has one set; the proofs take that bound away. The upper half of the u32 range is one value,
`U32Large`, which no length reaches; `NewBytes` stays below it.

In `simulator` three commands are as many as it takes for an answer to be misread twice; the
proofs take the bound on calls, commands and answers away. In `values` twenty
bytes take a draw through two whole u64 and every remainder, and no error code is left out.

CHECK_DEADLOCK is off for `codec`, where a value's way ends, and for `values` and `error_codes`,
where a draw's does.

**Fairness.** `TpmServer!Spec` has `WF(Serve)` and `TpmSystem!SystemSpec`
`WF(CallRuns)`: a call runs in its caller's thread and has no loop without
a bound, no lock and no wait, so that a step that can be taken is taken. No
fairness is assumed of the caller: it need not call again or restart the server.
`TpmSimulator!Fairness` has weak fairness of the client's steps (`Run`, `Transact`), which are one
thread in a loop of at most four rounds; of `Serve`, that a simulator which holds a whole
command answers it; and of `PreviousIsGone`, that a killed process ends. None is assumed of
the tests, of a simulator's start or of its end. `RunReturns` and `CallComesBack` use these; the
latter promises a return only until a call has failed on the connection.
`CallsComeBack` and the liveness half of `ImplementsService` use nothing else.

## The proofs

`TpmServerProofs` proves, for every arena, every set of capacities, lengths, sizes,
codes and counts, every reseed interval and every DRBG, from
`ArenaAssumption`, `RequestAssumption` and `DrbgAssumption` (which say only
that these are numbers and that capacities lie in the arena):

| Theorem | States |
|---|---|
| `Invariant` | `Spec => []IInv` |
| `TypeCorrect`, `RequestReadIntact`, `ResponseOnly`, `ErrorsCarryNoRandomBytes`, `FillsAreSeeded` | each safety invariant of the run `server` |
| `Implements` | `Spec => Service!SafeSpec`: each step of the server is a step of the service or a stutter |

None of the invariants is inductive. `NoRandomBytesOnError`, for instance, needs that
a header write cannot fail once the body has been written, which follows from the
reservation having counted the header, which is known only of a cursor that starts
at ten. `IInv` has four parts: `TypeOK`; `AtRest`, that nothing of a call is left
between calls; `Progress`, what each value of `pc` implies of the cursors and of the
request; and `Memory`, which says of every byte of the arena whether it is
`ResponseByte` or still the caller's. `Memory` is the heart: `BufferIsRequest` takes from
it that the buffer being read is the request in both arrangements, so each
field decodes to the caller's value (`DecodeSize`, `DecodeCode`, `DecodeCount`), and
at the return it gives the bytes promised by the service (`AnswersAgree`). There is
one lemma per action for the invariant (`ReadTagKeeps`, ...), and
the refinement sorts actions into those inside a call, which stutter
(`InnerStutters`), and the five that are steps of the service.

`TpmClientProofs` proves about the client, for buffers of every size, all commands and all
responses, from `SizeAssumption`, `JobAssumption` and `ResponseAssumption`:

| Theorem | States |
|---|---|
| `ReadPartByPart` | `Spec => []IInv` |
| `TypeCorrect`, `CodeReachesCaller`, `FrontToBackIsWellFormed` | `TypeOK`, `ErrorCodeWins`, `AcceptsExactlyWellFormed` |

`AcceptsExactlyWellFormed` measures a response from both its ends, once, at the return; the
code knows at no moment where the end of the parameters should be. `IInv` bridges the two: for each value of
`pc`, `ReadSoFar` says which part of the response has been read, what was found there, and
that `rest` is everything behind it up to the announced size. For a call that returns
Ok, the parts then add up to a well-formed response; for one that refuses, a well-formed response
would have had the part that was missed: its sessions begin where the parameters as read end
(`SessionsFollow`), because a value's length is fixed by its shape and its first two
bytes (`SameLength`). `Progress` bounds the command for `TypeOK`: the size of the authorization area is
written over four bytes that are there. There is one lemma per action (`MarshalHeaderStep`, ...,
`FinishStep`).

It proves about the client's command, for buffers of every size and all jobs, from the
same assumptions:

| Theorem | States |
|---|---|
| `MarshaledFieldByField` | `Spec => []Marshaled` |
| `SentWhole` | `Spec => []SentCommandIsJob` |
| `RefusedExactly` | `Spec => []RefusedIffTooLarge` |
| `ClientIsCall` | `Spec => Promise!Spec`: the client implements `TpmCall` |

`Command(j)` is one concatenation with the final sizes in it; the code appends field after field,
over zeros that `Patch` replaces when the sizes are known. `Marshaled` says for each
part that `cmd` with the fields still to come is that part of the command, its sizes zero, and that
the area's size is at `authAt`. A refusal is exact because a field that does not fit would end, in
`Command(j)`, behind the end of the buffer, wherever in the field the code notices it.
The refinement puts these together with what is proved of the response: each step is a stutter but
for `Call`, the step that gives up (`GivingUpRefuses`), `MarshalSize`, `Transact`, `TransactFails`, the
step that returns (`ReadingImplements`) and `Collect`.

`TpmSystemProofs` proves about the two together, for every size of both buffers, all jobs and every DRBG,
from the client's assumptions, `RandomAssumption` and `PlatformAssumption` (which is `TpmServer`'s
`DrbgAssumption`):

| Theorem | States |
|---|---|
| `TogetherAsAlone` | `SystemSpec => []SystemInv` |
| `ErrorsArrive` | `SystemSpec => []ServerErrorsArrive` |
| `NoCommandOfWrongSize` | `SystemSpec => []SizesAgree`, when each GetRandom among the jobs has the two bytes of its `bytes_requested` |
| `PanicsAreExplained` | when a call panics, the server has, or the command was larger than its buffer |
| `OnlyTheServerPanics` | `SystemSpec => []PanicsOnlyWithServer`, when the commands of all jobs fit the buffer |
| `StillTheService` | `SystemSpec => Service!SafeSpec` |
| `StillTheCall` | `SystemSpec => Promise!Spec`: behind the server, too, the client implements `TpmCall` |

The two hypotheses are about jobs, not about the code: `GetRandomCmd` is a u16, which the client
marshals whole, and of a command that does not fit `client_large_command` shows the panic. The jobs of
`MCTpmSystem` meet both. `SystemInv` is the client's invariants, the server's, which `TpmServerProofs` gives through an
INSTANCE of it, and what holds of both. `Coupled` says that the server works on the command in the
client's buffer while the client waits, and has no call otherwise; `Arrived`, that the code in
the response is the one the command deserves and that a success has a size that covers its header. Each
step of one is a step its own proof knows: `Enter` is the server's `Submit`, of a call it
was proved for (`AsCall`), and `Leave` is the client's `Transact` with a response it was proved for, since
what the server's bytes become are octets.

`TpmDeriveProofs` proves about the derive macro, for all fields of all types and whatever the impls of
the fields are, without an assumption:

| Theorem | States |
|---|---|
| `ReadingNests` | if what each field's impl accepts is the encoding of what it returns, so it is for the generated impl |
| `WritingNests` | if each field's impl writes a value's encoding, in no more than the type's size and only where there is room, so does the generated impl |
| `RefusingNests` | if each field's impl refuses its overcounted values, so does the generated impl |
| `WordsNest` | integers, which counts and selectors are read from, pass through |
| `LeavesFit`, `StructsFit`, `EnumsFit`, `ArraysFit`, `ApartFit` | Tpm2bs, structs, enums, the counted entries of arrays and the types whose impls are written by hand take no more on the wire than in memory |

An encoding of a value (`Code`) is what the impl reads as this value and leaves everything behind it, reads no part of,
and writes from it. Reading field by field, the encodings join (`CodeGrows`, `FieldsRead`), and a field depends on
the ones before it only through integers, which are read as they were written (`ResolvedAlike`). `Writes` and `Reads` are
recursive functions, whose values come by induction over a set of numbers (`WritesSteps`, `ReadsSteps`).
The second part is about `repr(C)`: the fields end, each at its alignment, no sooner than they do on the wire (`EndsCover`), and a union
is as large as the largest variant (`UnionSizeCovers`). `ApartFit` compares two orders of the same fields
(`RearrangedRoom`). Together they say that types built by `TpmMarshal`'s constructors, with any capacities a u16 counts, meet the condition on sizes
that `TypesAssumption` makes.

`TpmCodecProofs` proves about the codec, for all types and values that meet `TypesAssumption`, however large, and all bytes on
the wire:

| Theorem | States |
|---|---|
| `WhatIsReadIsWritten`, `WhatIsWrittenIsRead` | both directions for the types of eight levels, the second for values whose counts stay within their arrays |
| `WhatIsOvercountedIsRefused` | for the same types, the other values are never written, whatever the buffer |
| `CodecInvariant` | `Spec => []CodecInv` |
| `ValuesArriveIntact`, `CutsAreNoticed`, `ReadingIsUndone`, `HoldersHold`, `MessagesHaveWhatTheyCount` | `ArrivesIntact`, `CutIsNoticed`, `ReadsBackTheSame`, `HolderHolds`, `MarshalsWhatItCounts` |

The impls of integers, byte arrays and Tpm2bs are proved to read what they write (`LeafIsRead`, `LeafIsWritten`), and the
nesting theorems are then cited once for each level (`Level1` to `Level8`): where induction over the structure of types is not to be had,
eight steps of it are, and no type that is modelled nests deeper. Each level has an instance of `TpmDeriveProofs`, whose
operators are those of the instances in `TpmCodec` (`Same1` to `Same8`). `CodecInv` adds to four of the properties, which speak of the
ends of a value's way, what holds in between: the wire has an encoding that fits the type's size and shows what the value shows, whole, or a part of
it once it is cut (`WireInv`), and what is read is what the wire has (`ReadInv`).

`TpmSimulatorProofs` proves about the transport and the power-up, for commands and answers of any length and any
number of calls, from `TransportAssumption`:

| Theorem | States |
|---|---|
| `StreamsInStep` | until a call has failed, both streams hold what is left of the call being made, and nothing else |
| `TransportIsExchange` | `SimulatorSpec => Exchange!Spec` |
| `OverlongRefusedAgain` | `SimulatorSpec => []OverlongNotMistaken` |
| `TransportTyped`, `SimulatorTyped` | `TransportTypeOK`, `SimulatorTypeOK` |
| `PowerUp` | `SimulatorSpec => []PoweredUpInOrder` |
| `NobodyElse` | `SimulatorSpec => []OwnSimulator` |

`WireInv` is the inductive invariant of the calls: at each `pc`, `InStep` says which words of which answer the
stream begins with, and that the words already read are the answer's. It holds
only as long as no call has failed, which is the condition of `TpmExchange`'s
promise too; across `LoseConnection` it holds because a stream can only lose its end.
Simulators, ports and the power-up leave the streams alone (`IdleStep`) until `ConnectTpm` and
`EndTest` renew them. `OverlongInv` says what an answer that does not fit leaves behind: its
tag is the next word (`TagComes` before it is refused, `TagNext` after), and no buffer has room for a
tag. `Bounded` adds to `WireInv` what the types need: pieces and words are of calls that
were made.

In `PowerIInv`, `SignalsInStep` says that while signals go to the test's own simulator, the last ones it acted on are
the first of the sequence; a signal acted on in an attempt that failed may stand before them, and is pushed
out by the time all four are there (`OneMoreSignal`). `Alone` says why an answer
is its own simulator's: one listens only once the one before is gone, and a killed one answers nothing.
The calls leave all that alone (`CommandsStep`).

`TpmValueProofs` proves about lists, for every capacity and all entries, from `ListAssumption`, and about
attribute words, for all flags and all values, without an assumption:

| Theorem | States |
|---|---|
| `ListInvariant` | `ListSpec => []ListInv` |
| `EqualListsHaveEqualElements`, `PrivateListsPanicOnlyInEntries` | `EqualMeansSameElements`, `PanicsOnlyInEntries` |
| `ListsAreBoundedSequences` | `ListSpec => Sequence!Spec` |
| `FlagsAndFieldsApart` | `AttrSpec => []FieldsKeepApart` |

`ListInv` adds to the types what only private fields guarantee (`Sound`): the count is within the array,
what is behind it is default, and no panic was the list's own. It is needed because
`Add` relies on the default entries that `New` and `Receive` leave, and because a count within the
array leaves `Marshal` only the outcomes of the entries that are shown (`MarshalOutcomes`). Of these nothing is assumed:
`Outcomes` may have any entry panic in any buffer. `FieldsKeepApart` speaks of what is read back;
`AttrInv`, which is inductive, says of the bits under each mask that they are those of the field's value in its place,
and rests on the masks and flags of each of the two words being apart (`NvApart`, `CcApart`).

It proves about the draws, for every length of `dest` and every kind of DRBG, from `DestAssumption`:

| Theorem | States |
|---|---|
| `InputGoesIn` | `DrbgSpec => []InputUsedOnce` |
| `DestFilledInOrder` | `DrbgSpec => []FilledInOrder` |

`InputKept` is what makes the first inductive:
`additional_input` is still there exactly while nothing has been drawn, but for a low half, which
only its high half can follow. For the second, `Pieced` says that everything drawn so far is `dest` and a rest, which is the low
half that waits, or what of the last word did not fit.

`TpmFlattenProofs` has no theorem about the code, but the lemmas that `TpmValueProofs`, `TpmClientProofs` and `TpmDeriveProofs` rest on:
that `FlattenSeq` of parts is a sequence of the parts' elements, and of parts appended or concatenated is the concatenation
(`FlattenAppend`, `FlattenConcat`). `FlattenSeq` is a recursive function, whose existence and
values are shown by induction over a set of numbers (`SetInduction`): the library's induction
theorems, which take an operator, cannot be used here.

Only model-checked:

- all liveness (`CallsComeBack`, `CallComesBack`, `RunReturns`, and the fairness of `ImplementsService`): temporal
  reasoning from fairness needs ENABLED, which the prover does not have;
- the error codes (`OnlyWarningsWarn`, `ParameterErrorsNamedBack`, `ErrorsKeptApart`): `TpmErrorCodes` has
  no constants, and the run `values` goes through every code there is, so that nothing is left for a proof to add.

## What disagrees with the code's own words

1. `fill_error` announces ten bytes and writes four; the doc of both
   entry points says the number of bytes written is returned (`server_error_size`).
2. A DRBG that refuses a fill is `todo!()`; the server is meant to be free of panics
   (`server_panic`).
3. A response with code 0 and a size below 10 panics the client
   (`client_short_size`). `AcceptsExactlyWellFormed` counts such a panic as not
   accepted.
4. A command too large by a few bytes panics instead of returning `Memory`, when
   the end of the buffer falls inside a Tpm2b or the authorization area's size
   (`client_large_command`).
5. The server's GetRandom response has no size before its bytes, and the client
   expects a Tpm2b (`system_get_random`).
6. `format1_parameter` returns a session for every error of a handle: `from_mask` tests the
   mask instead of the value (`error_codes`).

## Not modelled

- The DRBG's bytes and entropy's: the platform supplies both, and no property
  depends on their value. TPM state other than the DRBG: the server has none.
- The commands that are declared without fields, and the aliases, names and doc
  comments of the TPM's structures.
- The range checks of handles (`TpmHc`, `TpmiRhNvIndex`, `TpmiShAuthSession`): each compares
  a number with two constants, which `test_nv_index_range` does at both ends. The attribute words
  that are flags only, which are `bitflags`' business.
- The simulator itself: its ports are modelled from what `simulator_tests.rs` expects of
  them.
- Debug output, and the macros' compile errors beyond what makes a type derivable.
- Tpm2bs that are another type's twin (`Tpm2bEvent`, `Tpm2bIv`, ...), which are the
  same `Blob` with another capacity.

## The plan

The plan was, in the order of their weight: the server; the client; the two together; the codec; the
simulator's transport and its power-up; lists and attribute words, error codes and DRBG helpers; an abstract
specification of each that promises something to another (`TpmService`, `TpmCall`, `TpmExchange`,
`TpmSequence`); and proofs about each but the error codes. All of that is there. What could follow:

1. The commands that are declared without fields, once they have some, as types of `TpmTypes`, and a handler in `TpmServer` for each
   that the server learns.
2. The range checks of handles, once a property rests on a handle being in range.
3. A TPM state behind the server, once there is one: `TpmService`'s `Reply` would then depend on it.
