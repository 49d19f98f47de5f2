# A TLA+ model of rpc_core

rpc_core is a small library for remote procedure calls between two ends of one
connection, either of which may call the other. This directory models its C++
implementation (`src/include/rpc_core`) and the core and the TCP client of its
second implementation, in Rust (`src/rust`), checks them with TLC and proves
their main properties with TLAPS.

## 1. Inventory

Everything of one `rpc` object runs on one thread (test/test_rpc.cpp:388: "should
post to rpc thread"). What makes the code hard is not parallelism but the order
of callbacks: the user's calls, the timers, the packages from the connection and
the destruction of objects interleave freely, and the objects refer to each
other through bare pointers, weak pointers and reference cycles. In Rust the same
callbacks run inside borrows of a `RefCell`, where a second borrow panics, and
the TCP client is a set of tasks that change places at every await.

| part | state | operations | what makes it correct |
|---|---|---|---|
| `request` (request.hpp, request.ipp) | `waiting_rsp_`, `canceled_`, `need_rsp_`, `seq_`, `retry_count_`, `self_keeper_`, `rpc_`, `finally_type_` | `call`, `cancel`, `reset_cancel`, `enable_rsp`, `disable_rsp`, the response handler, the timeout callback, `on_finish` | one call, one finally; every call ends; it is alive while it waits |
| `msg_dispatcher`, calling half (detail/msg_dispatcher.hpp) | `rsp_handle_map_`, the timers | `subscribe_rsp`, the timer closure, `dispatch` of a response | an answer or timer ends the call it belongs to; no entry stays for ever; no handler runs on a dead request |
| `msg_dispatcher`, serving half | `cmd_handle_map_` | `subscribe_cmd`, `unsubscribe_cmd`, `dispatch` of a command | at most one answer to a command, one to each answered `rr`, none unasked |
| `rpc` (rpc.hpp, rpc.ipp) | `seq_`, `is_ready_`, the connection, the dispatcher | `make_seq`, `send_request`, `set_ready`, `set_timer`, `subscribe`, destruction | fresh numbers; the peer's answer reaches the request that asked |
| `request_response`, `async_helper` (request_response.hpp, msg_wrapper.hpp:14) | `rsp_ready`, `rsp`, `is_ready`, `send_async_response` | `rsp()`, release | the answer is sent whenever it is given; `rr` is released |
| `dispose` (dispose.hpp) | weak pointers to requests | `add`, `remove`, `dismiss`, destruction | cancels each live request, once |
| `connection`, `loopback_connection` (connection.hpp) | two callbacks | send, receive | whole packages |
| `stream_connection`, `data_packer` (connection.hpp, detail/data_packer.hpp) | `buffer_`, `header_len_now_`, `body_size_` | `pack`, `feed`, `feed_body`, `reset` | packages come out as they went in, in order, at once |
| `coder`, `varint` (detail/) | none | `serialize`, `deserialize`, `varint_encode`, `varint_decode` | what is written is read back |
| serialization (serialize_type.hpp, serialize/, plugin/) | two archives, one error flag | one pair of operators per type | what is written is read back, however types nest; an error is reported and stays in its place |
| `future`, `co_call` (request.ipp:44-99) | a promise or a coroutine | `call` and wait | completed once, when the call ends |
| callable traits, log, config | none | | |
| Rust core (rust/src: request.rs, rpc.rs, detail/msg_dispatcher.rs) | as above, in `Rc<RefCell<..>>` | as above | as above; no borrow is taken twice |
| Rust net, client (net/detail/tcp_channel.rs, net/tcp_client.rs, net/rpc_client.rs) | `is_open`, `send_queue`, the `Notify`s, `reconnect_timer_running`; the tasks that read, write, open and sleep | `open`, `close`, `send`, `cancel_reconnect` | a lost connection is followed by another attempt; one write loop; header and body in turn; the rpc is ready while connected |
| Rust net, server (net/tcp_server.rs, net/rpc_server.rs) | sessions | accept | |

How they interact. `request::call` takes a number from `rpc::make_seq` and goes
through `rpc::send_request`, which registers the response handler and a timer
in the dispatcher and writes a package to the connection. The peer's dispatcher
looks up the command, runs the user's handler and writes the answer, at once or
when the user calls `rr->rsp()`. The answer comes back to the first dispatcher,
which runs the handler of its number, and that ends the call. A timer whose
handler is still registered ends the call or repeats it. `dispose` cancels
requests from outside. `stream_connection` cuts a stream of bytes into packages.
`future` and `co_call` put a callback of their own into the request and call it.
The body of a package is what `serialize` makes of the user's value. In Rust,
`RpcClient` gives packages from a `TcpClient` to the connection of an rpc, and
sets the rpc ready and not ready as the client opens and closes.

The hard behaviours, each at its line, are the `hazards` of PROJECT.json.

## 2. Modules

| module | models | composed of |
|---|---|---|
| `CallSide` | request, the calling half of the dispatcher, `send_request`, dispose | |
| `CallContract` | abstract: what a call promises its user | refined by `CallSide` |
| `ServeSide` | the serving half, `subscribe`, `rr` and its helper | |
| `RemoteCall` | abstract: what two ends promise a caller together | refined by `RpcLink` |
| `RpcLink` | two ends and the packages between them | `CallSide` and `ServeSide` |
| `PackageStream` | abstract: what a connection promises (connection.hpp:19) | refined by `DataPacker` |
| `DataPacker` | packing, feeding, reset, reconnection | |
| `Waiters` | `future` and `co_call` | `CallSide` |
| `Codec` | the layout of packages, varints and sizes | |
| `LeafTypes` | the two archives, and the operators of the types made of no others | `Codec` |
| `Archive` | the operators of the types made of others | `LeafTypes` |
| `TcpClient` | `TcpChannel`, `TcpClient`, and what `RpcClient` does on open and close | |
| `RustCore` | the Rust request, dispatcher and rpc, with their borrows | |
| `*Proofs` | theorems of the module they are named after; `CallSideProofs` also those about `CallContract` | |
| `MC_*` | small instances for TLC | |

How state corresponds to code is noted at each VARIABLE. Flags of objects are
sets of the objects that have them set (`waitingRsp`, `canceled`, `rspReady`),
`shared_ptr`s held by the user are the set `held` (or `holds`), a bare pointer is
a name that may stand for an object that is gone. The actions:

- **CallSide**. `Call` is `request::call` with everything it runs: refusal when
  canceled, when the rpc is gone or not ready, `make_seq`, `subscribe_rsp`,
  sending, and `on_finish` when no answer is awaited. `TimerFire` is the closure
  given to the timer with the request's timeout callback inside it, so a retry
  is a `CallBody` in the same step, and the entry of the old number is erased
  after it. `RecvRsp` is the response branch of `dispatch` with the request's
  handler. `Cancel`, `SetCanceled`, `SetNeedRsp`, `AddTo`, `Remove`, `Dismiss`,
  `Drop`, `SetReady` and `Expire` are the other calls of the user. `UseDestroyed`
  is a handler or timer that runs for a destroyed request: undefined behaviour,
  after which the model stops (`fault`).
- **ServeSide**. `Recv` takes a package up to the call of the user's handler
  (`Start`), or refuses or discards it; `Return` is what `dispatch` does after
  the handler; `UserRsp` is `rr->rsp()`, possible whenever the user holds the `rr`,
  in the handler and ever after; `DropRR` lets go of it. `rspSet`, `isReadySet`
  and `hooked` are the three references that keep an `rr` and its helper alive.
- **RpcLink**. Each step is a step of one side joined with what it puts on the
  wire or takes from it. `attempt` is a history variable: for each number in
  use, who sent a package under it and what the peer did with it. `RemoteCall`
  knows neither numbers nor packages: a call there has one newest attempt, and
  `Served` finds what was done about it by the handler that can still take its
  answer.
- **DataPacker**. A byte is named by its place in the stream, so a byte taken
  for another shows. One call of `feed` is one step; the recursive call for the
  rest of the chunk is the next step, as the user's `on_data` runs between them.
- **Waiters**. Each action is one of `CallSide` joined with `Complete`: the
  callbacks that run in that step complete what is waited on. `Future` is
  `future()` and `co_call()` with the `call()` at their end. `current` holds the
  numbers whose handler is a copy of the callback the newest `future()` set: the
  handler is copied into the table at each `subscribe_rsp`, the finally callback
  is not, and this is what the two kinds of waiters differ by.
- **Codec**, **LeafTypes**, **Archive**. Bytes are numbers; a state is one input. An integer is
  what lies in its eight bytes of memory (`Register`), of which the code writes some. A type is a
  record of its kind and of the types it is made of. `Write` and `Read` are the
  overloads of `>>` and `<<` that a type finds for its parts, `WriteBy` and `ReadBy`
  say which overload a kind of type has. The two are tied together in the
  configuration (`Write <- WriteBy`), as overload resolution does it in the code;
  `IsType`, `IsValue`, `Broken` and `Reported` are tied in the same way. So a type
  may nest to any depth and no operator is declared recursive, which the provers need.
  (The `LET` in front of each of their `CASE`s is for TLC, whose cost model does not
  end on a tied operator that is one expression.) An input archive is a place in
  memory with a size, as in the code: nothing else keeps it from the bytes of its
  neighbour.
- **TcpClient**. A step is a task from one await to the next. `reader[c]` and
  `writer[c]` are where the two loops of connection `c` wait, `opener` the tasks of
  `do_open`, `checks` and `sleepers` those of `check_reconnect` before and in their
  sleep. A `Notify` is a kept permit (`sendPermit`, `readFinish`, `writeFinish`) or,
  for `notify_waiters`, a change of those who wait now. `unframed`, `orphaned`,
  `raced` and `stopped` are history.
- **RustCore**. A step goes from one callback of the user to the next, and the
  stack between them is state: `callback` is what the dispatcher runs, `finals`
  the finally callbacks that run inside it and inside each other, `borrowed`
  whether the dispatcher is borrowed and by what. A user's step is possible at any
  depth. A second borrow is `Panic`, which ends the model and says whose step it
  was: the user's, who may be expected to know, or the library's own.

Where the step is cut. In the C++ modules user code called by the library (a
response, timeout or command callback) runs before the library changes state in
the same call, so what it does is the step before; the exceptions are listed in
section 6. `RustCore` makes each callback a state of its own.

## 3. Runs

| run | question | result |
|---|---|---|
| `call_safety` | two requests used by the rules, each waited on by a future, one of a value, retried and dropped while it waits, one of void, canceled, resumed, given to a dispose and toggled; the rpc may die | holds, with the refinement of `CallContract` |
| `call_live` | does every call, and every wait for void, end; does cancel stop an endless retry | all hold |
| `call_twice` | "one call, one finally" (request.hpp:142) for a request that is canceled and has a retry left | violated |
| `call_dangling` | is a handler ever run on a destroyed request (README.md:34) | violated |
| `serve_safety` | handlers of both kinds, `rsp()` called at any time | holds |
| `serve_leak` | "it will be release in msg_dispatcher after check" (rpc.hpp:88) | violated |
| `link_answers` | does a call report what the peer did with its own last package; the rpc may die | holds, with the refinement of `RemoteCall` |
| `packer_framing` | four packages cut in every way, connections lost at every byte | holds, with the refinement of `PackageStream` |
| `archive_exact` | packages, sizes and small varints around every boundary, packages cut short; every type in up to three levels of containers, with parts that cannot be read | holds |
| `codec_varint` | are the numbers of the first thousand calls read back under the varint coder | violated |
| `tcp_reconnect` | connections refused, lost at any await, closed and opened by the user: one write loop, a framed stream, always another attempt | holds |
| `rust_retry` | does a step of the Rust library itself ever panic | violated |

The five violations (1 to 4 were also seen when the program is run):

1. **A second finally.** `cancel()` runs finally; the timer of the call is still
   registered and with `retry_count_ > 0` calls `call()`, which sets `waiting_rsp_`
   again, sees `canceled_` and runs finally once more.
2. **A destroyed request used.** `cancel()` releases `self_keeper_` but leaves the
   handler and the timeout callback, which hold a bare `this`, in the dispatcher.
   When the user's `shared_ptr` goes too, a late answer or the timer uses freed
   memory. A request given to a `dispose` and then dropped meets this.
3. **An `rr` never released.** Only an answer that is ready when the handler
   returns clears `is_ready`. Otherwise the helper holds itself through the
   message captured in `send_async_response`, and when no answer was asked for
   nothing opens the cycle of `rr` and helper.
4. **Varints.** `MSB_ALL` is one byte, so a number whose bit 7 is clear ends the
   encoding whatever is above it: 256 becomes 0, and with that build option the
   answer to call 256 finds no handler.

5. **A retry panics in Rust.** The timer closure of `subscribe_rsp` has the
   dispatcher borrowed mutably while it runs the timeout callback
   (msg_dispatcher.rs:85). With a retry left that is `Request::call`, and
   `send_request` borrows the dispatcher again (rpc.rs:134). So any call with
   `retry()` that times out panics; nothing is sent and the call never ends.

A sixth shows in `RustCore` with `ConnBorrowed = TRUE`, for which there is no run:
`RpcClient` has the connection borrowed mutably while a package is dispatched
(rpc_client.rs:71; the server, which only borrows it, does not), and `dispatch`
borrows it again to answer. A client that gets a ping or a command to answer
panics, although "both sender and receiver can use `subscribe` and `call` apis"
(README.md:60). The theorem `NeverPanics` says that the request, the dispatcher and
the rpc panic in no third way by what `RustCore` models. Panics outside it are not
covered: a client destroyed while a task of its own is still to run, for one, makes
the upgrades in tcp_client.rs:131 and rpc_client.rs panic.

What the runs show to be so, and a user may not expect:

- A future or coroutine for a value waits for ever after a timeout, a refusal or
  an unknown command, as long as somebody keeps the request; once nobody does,
  its promise breaks (`ValueWaiterExact`, `LetGoNotHung`).
- After a cancel, a resume and another `future()` of a request with retries the
  promise may be set twice, which throws (`CompletedOnce` excludes it).
- An element of a tuple, pair or map that cannot be read goes unreported, and
  the value is delivered without it (`ErrorsReported`).
- The Rust send queue is cleared neither by `close()` nor by `open()`
  (tcp_channel.rs:153): a body whose header went to the old connection is the
  first thing the new peer reads (`FramedStream` excludes it by `orphaned`).
- `open()` while anything is under way may leave two write loops on one queue, of
  which a wake-up reaches one (`raced`), and a kept permit of an earlier close
  ends the next wait at once (tcp_channel.rs:86).
- `close()` of an open channel is followed by a reconnect if reconnecting is on:
  the write loop's `on_close` calls `check_reconnect` all the same. `Reconnects`
  asks for nothing after a `close()`, and forbids nothing either.

Bounds, and why they are enough.

- *Requests*: two. Requests share only the dispatcher's table and the numbers,
  so two show every interference; what one may do is set by the constants
  `MayCancel`, `MayOverlap`, `MayDrop`, `MayToggle`. These also state what the
  properties ask of the user: the theorems hold for any choice of them.
- *Numbers*: three (two in `RpcLink`), interchangeable and so a symmetry set
  (not in the liveness run). `make_seq` counts to 2^32; the models take a number
  again once its timer has gone (`FreshSeqs`), and in `RpcLink` once the wire and
  the peer have forgotten it too (`Busy`). So a number returns within a short
  run, as after 2^32 calls, but never within one timeout. `CallSeqs` leaves one
  number for a retry to come.
- *MaxOwed*: a history counter of calls minus finally callbacks, kept between
  -MaxOwed and MaxOwed: with overlapping calls it would grow without end.
- *Retries*: 0, 1 and for ever, the three branches of the timeout callback.
- *Packages*: sizes of 1, 2 and 5 bytes make bodies shorter and longer than the
  4-byte header; four packages let three follow the one that is cut. `Garbage`
  stands for what four bytes that are no header may read as: nothing, a size in
  range, one above the limit.
- *Waiters*: `ValueWaiters` and `VoidWaiters` split the two requests, so each kind
  of waiter meets the other's interference; in the safety run the waiter for a
  value is the one retried, the waiter for void the one canceled.
- *Codec*: numbers around 0, 2^7, 2^8, 2^16 and 2^24 with both signs, commands
  and bodies of up to two bytes, payloads with every length field that fits or
  just does not. For the varint coder each package is also cut at every place before
  its type byte.
- *Archive*: twenty leaves, at least one of each type and some that a neighbour
  could be taken for; each in seventeen kinds of containers beside others, and all
  of those in the seventeen again. What an archive does depends on the sizes of
  the one around it and of the one inside it, so two levels of containers, with
  the level of the tuple or map inside some of them, meet each pair.
- *TcpClient*: `MaxConns = 2`, an old connection and a new one: all that is shared
  between two connections is the queue, the permits and the flags. Two openers:
  the user's and a timer's, or two of the user's. `MaxSleepers = 2` lets a stopped
  timer sleep beside a new one. `MaxQueue = 3` is one package and the body of the
  one before.
- *RustCore*: two requests, so that one's finally may be inside the other's, and
  two numbers, one for a retry. Callbacks nest as deep as there are requests.

Deadlock is checked, and no run meets one, except in the `ServeSide` runs, where the
serving side really is at its end once the connection is gone and the answers and
the `rr` with it, and in `rust_retry`, where a panic ends the program.

Fairness. `FairWaitersSpec` asks that every timer that has been started fires, for each
number on its own. That is what `timer_impl` is for; nothing is asked of the
user, the peer or the connection. `EveryCallEnds` is stated while the rpc lives,
for requests with finitely many retries and a timer: without `set_timer` the code
registers no handler and such a call never ends (msg_dispatcher.hpp:154).
`FairTcpSpec` asks that a task that can run does, on its own account (the tokio
scheduler polls each woken task), that a sleep ends and that an attempt to
connect succeeds or fails. It asks neither that a connection is ever lost nor
that a write ends unless it was told to stop, and nothing of the user.

Every property of a passing run fails when one definition of the model is
changed the way a bug would change the code (PROJECT.json, `mutants`); the
changed definitions stand in the modules under "Bugs the properties below are
tried against".

## 4. Proofs

The assumptions are those named in the modules (`CallSideAssumption`,
`ServeSideAssumption`, `LinkAssumption`, `PackerAssumption`, `WaitersAssumption`,
`TcpClientAssumption`, `RustAssumption`, `CodecAssumption`, `ArchiveAssumption`): sets
may be of any size, retries any number, packages any sizes within the limit, numbers
any of eight bytes, commands and bodies any strings of bytes, samples any values of
any types.

**CallSideProofs**. `IInv` is shown to hold initially and to be kept by each
action, one lemma per action. It adds to the properties three facts that none of
them gives alone. `EntriesOwn`: a request that is neither canceled nor called
while it waits has no entry but that of its pending call; this is why the timer
of an answered attempt cannot retry it, and why its finally runs once.
`EntriesReachable`: an entry's request is bound to a living rpc; this is why a
retry never finds `rpc_` expired. `RulesKept`: what the constants forbid is not
done. From it follow `TypeCorrect`, `OneFinally`, `NoLostWaiter`, `NoLeakedEntry`,
`Kept`, `OwnAttempt` (an action property) and, when the user holds on to what it
cancels or overlaps (`OwnershipKept`), `Lifetime`: no handler ever runs on a
destroyed request. `call_dangling` shows that this hypothesis is needed. The theorems
hold whatever `MayOverlap`, `MayCancel` and `Retry0` are: for a request that is
called again while it waits, canceled and retried all at once, `IInv` is what
stays right.

`Refinement`: the requests of `Clean` behave as
`CallContract` says. Each step maps to a refusal, a beginning, a conclusion, a
joint cancellation by a dispose, or a stutter.

**ServeSideProofs**. `OneAnswer`, `AnsweredWhenReady` and `NoAnswerUnasked` are
inductive together with `RunningUnanswered` (the handler that runs has not been
answered for, and is not hooked) and `HookedWait` (what waits for its answer is
exactly what `send_async_response` was set for). These two say that each answer
has one sender: `dispatch` after the handler, or the hook, never both and never
neither. From `ServeIInv` follow `AtMostOneAnswer`, `NoAnswerLost` and `AnswersAsked`.

**RpcLinkProofs**. What is proved of the two ends holds of the link, as its steps
are theirs. `OwnAnswer`: a call reported done was served, by the
handler its own last package asked for. The argument goes along the path of a
number. It is sent when nobody uses it (`PackagesApart`), the handler registered
under it is that of the request that sent it (`HandlersMatch`), the peer keeps to
what it did with it (`PeerTrue`), so does the answer (`AnswersBroughtAbout`), and by
`EntriesOwn` of `CallSide` the handler the answer runs is that of the present
attempt. No assumption is made on the connection but that it does not duplicate.

`LinkImplementsRemoteCall` is the refinement of `RemoteCall`. A package on its way has
not been served (`PackagesNew`, which needs that no number returns while the wire or
the peer knows it), so the peer serves the newest attempt at most once; the package of
an attempt before has lost its handler, and serving it is a stutter. A retry forgets
what was done about the attempt before it, and its late answer finds no handler. That
a pending call which is neither canceled nor overlapped has one entry, that of its
last number (`EntriesOwn`), makes `Served` well defined all the way.

**DataPackerProofs**. `PackerIInv` says that while bytes are fed the receiver is
aligned: its buffer holds the last bytes fed, which start where a package
starts, or follow the header of the package whose size it read. The lemmas on
`Bytes` say how ranges of places join. `PackagesIntact` and `PackerTypeCorrect`
follow if `reset()` is called on every new connection ("connect" in `ResetAt`).
The comment at connection.hpp:80 asks for it "on connected or disconnected". On
disconnect only is not enough when the loss is noticed inside `on_data`: the rest
of the chunk is fed after the reset, and TLC finds `Intact` violated.

`StreamIInv` is inductive beside it: what has been delivered are packages that have
been fed to their end (`Passed`), in order (`InOrder`), and every package of the
present connection that has been fed to its end has been delivered (`CaughtUp`).
A step delivers one body at most; that it is the next one follows from `Aligned`,
and `Spaced` makes the order of packages that of their places. `NoneHeldBack` is
`CaughtUp` at the end of the stream, and `PackerImplements` is the refinement of
`PackageStream`: a body delivered is that of one package only, and of a later one
than all before.

**CodecProofs**. Everything rests on how an integer lies in memory: `SplitByte` and
`JoinByte` take one byte off a number and put it back, and eight of them in a row
give `WriteRead` (a number that fits is read back from its bytes) and `ReadWrite`
(bytes are written back from what was read of them). For `CodecExact` the fields of
a package are found again in the five strings joined (`FieldsRead`), and
conversely a payload is the join of what is read of it (`PackageWritten`): so
`serialize` and `deserialize` are inverses between the packages whose command is
not cut to 16 bits and the payloads accepted. For `SizesExact` the bytes above the
highest that is not zero are zeros (`EffectiveWidth`), so leaving them out loses
nothing. `VarintExact` says the same of the varint coder for numbers and command
lengths of one byte, where it works; `codec_varint` shows where it does not. It also
says that such a package cut anywhere before its type byte is refused, although the
decoder looks for the end of a varint in memory and not in the package (`NumberCut`,
`LengthCut`): it stops at the zero byte behind the string at the latest, and the check
of the length comes after. The value of a varint of more than ten bytes, whose shifts
are undefined, is the constant `Overlong`, of which the theorem assumes nothing.

For `Archive` the theorems are `ArchiveRoundTrip`, `ArchiveErrorsReported` and
`ArchiveErrorStaysInside`: the three properties for every type, nested to any depth, and
every value of it, with containers of any length that eight bytes can say, whatever
lies behind the data in memory. Their one hypothesis, `OverloadsResolved`, is what the
configuration says with `Write <- WriteBy` and the like: a type of so many levels is
one that `IsTypeBy` allows, and such a type is written and read by the overload of its
kind. `ArchiveAssumption` says that the samples are values of types of `Levels` levels;
TLC evaluates it for its own. The argument, from the inside out:

- *Leaves.* `LeavesExact`: every type made of no others reads what it wrote, and sets
  `error` exactly when a text is not accepted; a string and a bitset by place,
  character by character (`StringRead`, `BitsetRead`), the others from the size in
  front of them (`NumberTaken`, `BytesTaken`).
- *Nesting.* `NestedFound`: an archive put inside another is cut out of it with its own
  size, and the outer one goes on exactly after it. With it one round of each loop is
  understood: `ElementTaken` (a tuple forgets the error of its element), `FieldTaken` (a
  struct takes it over), `ItemTaken` (a container too, and drops the item).
- *Loops.* The library's induction needs an operator as a parameter, but an induction
  over a set of numbers does not: the least number outside it (`LeastNumber`, from
  `WFMin`) gives `EveryNumber` and `UpToLast`. By these a loop written as a recursive
  function has a value after each round (`ItemsLoopRuns`, `ElementsLoopRuns`,
  `FieldsLoopRuns`, `FrontLoopRuns`), and so has the join of the parts that were written
  (`JoinLoopRuns`): `PartsLaidOut` says what is still ahead in memory after each of them.
  The invariants of the loops are `ItemsState`, `ElementsState` and `FieldsState`: either
  an error has been reported, or the archive stands at the next part and what has been
  read so far is what was written, except where it is broken (`Kept`). That exception
  is what `ErrorStaysInside` and the pairs of a map need: `RoundTrip` alone is not
  inductive over types, since a tuple with a broken part is read with no error.
- *Types.* `Exact` is the statement for one value: an error exactly if one is reported,
  and the value if no part is broken, whatever follows it. Each kind of type hands it
  on from its parts (`ContainerExact`, `TupleExact`, `StructExact`, `PointerExact`), and
  `EveryNumber` over the levels of nesting gives `ValuesExact`.

**WaitersProofs**. What is proved of `CallSide` holds with futures too, since each step
is one of its steps. The invariant adds, for each waiter of a
value, that every handler left for its call completes its newest future
(`Followed`), and that at most one handler may still do so when the request is
never both canceled and retried (`OneLeft`): a cancel leaves one behind, and only
an endless or remaining retry would make a second. From it follow
`VoidWaitersExact`, `ValueWaitersExact`, `PromiseSetOnce` and `NoHungWait`.

**TcpClientProofs**, for any number of connections, openers and timers. Three
invariants side by side. `Timers`: the flag stands for a sleep. `OneAtATime`: as
long as no `open()` raced, the connection, the task about to look at the flag, the
timer and the attempt to connect follow one another, and there is one of them at
a time; `OneConnectionAtATime` follows. `Framing`: the queue holds whole packages
but for the header of its first, and that header is missing exactly when the peer
waits for a body; `StreamFramed` follows.

**RustCoreProofs**. `RustIInv` says how callbacks nest: the finally callbacks that
run are of different requests, none of which waits (`FinalsApart`), and what the
dispatcher runs has it borrowed (`CallbackMatches`). With it `RustKept`: a request
keeps itself until its finally callback has returned; `RustWaiters`: a request that
waits has its entry and its timer, or the callback that runs will end it; and
`NeverPanics`: with no retries, and a connection that is not borrowed mutably while
it dispatches, no step of the library panics, whatever the user's callbacks do and
however deep. The two hypotheses are the two ways in which it does panic (section 3).

## 5. Only model-checked

Liveness (`EveryCallEnds`, `VoidWaitEnds`, `CancelStopsRetries`, `Reconnects`), which
is out of the prover's reach. Every invariant and every other property of a passing
run is stated by a theorem as well. Only proved, and in no run: `IInv` for requests
that overlap, the invariants of `RustCore`, and the other inductive invariants
(`StreamIInv`, `RustIInv` and so on).

## 6. Not modelled

- What is formatted, logged or computed by templates at compile time: the callable
  traits, log, config.
- Calls made from inside a finally callback in C++ (request.hpp:298) and answers
  that arrive inside `send_request` of a retry (request.ipp:30): both need a step
  inside a step. The hazards say what happens there. `RustCore` has the former.
- A handler that replaces or removes its own command.
- A wrap of the 32-bit counter within one timeout.
- A scheduler that calls `rr->rsp()` from another thread: the library asks the
  user to post to its own.
- In Rust: `future()` and its waker, `call_with_rpc()`, a package that arrives inside
  `send_package` (`LoopbackConnection`), the last reference of the rpc dropped inside
  a callback; `TcpServer` and `RpcServer`, which use a channel that is never reopened;
  the read loop without `auto_pack`; what a panic does to the tasks of `TcpClient`.
- JSON and flatbuffers libraries: external, a predicate on texts (`Accepted`).

## 7. Plan

Done, in this order, the most important behaviour first: `CallSide` with its
contract and its proofs; `ServeSide` and `RpcLink` with their proofs; `DataPacker`
with its proofs; `Codec`; `Waiters`, `Archive` and `TcpClient`, the first and the
last with proofs; `RustCore` with its proofs; that `DataPacker` implements
`PackageStream`; the proofs of `Codec`, of `LeafTypes` and of `Archive`; that
`RpcLink` implements `RemoteCall`; varints read past the end of a package.

Next:

1. *Calls inside callbacks* in `CallSide`, as `RustCore` has them: a step opened at
   `finally_`, for the keeper that is dropped after it (request.hpp:298).
2. *The Rust server*: sessions that come and go, and an rpc shared by all of them.
3. *A run of `RustCore` over two ends*, with a connection that is synchronous.
4. *Archive*, for a body that was written as another type: the theorems say what is
   read of bodies of the same type.
