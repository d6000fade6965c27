# TLA+ models of autowiring

These are TLA+ specifications of the parts of this repository that interact, interleave or loop. Each comes with the TLC configurations that check it. `PROJECT.json` records four things:
- which source lines each definition translates ("map");
- the runs;
- the mutants that show each checked property can fail;
- the hazards and findings.

Run a check from this directory:

    tlc -workers 2 -config <Run>.cfg <Module>

## 1. Inventory of the system

The sources under `src/` fall into five groups.

| Part | Source | What it does | Concurrency / state |
|---|---|---|---|
| Debug introspection | `src/autowiring/AutowiringDebug.cpp` | Prints the context tree (`PrintContextTree`) and the runnables in it (`PrintRunnables`). Queries the AutoFilter registry: `DescriptorByName`, the recursive `AutoFilterInfo` and `ListRootDecorations`. Writes the filter graph as DOT (`WriteAutoFilterGraph`). Also holds the name helpers (`IsLambda`, `DemangleWithAutoID`, `ContextName`) and `CurrentPacket` (not modelled, section 5). | Reads state that other threads change: contexts, runnables and the filter registry. The context, runnable and factory classes are not under `src/`; their behaviour is taken from `spec.md` (sections 3, 4.2, 5 and 8). |
| asio composed read | `contrib/.../asio/impl/read.hpp` | `read()` and `async_read()`: loops of `read_some` that end when the completion condition or the buffers say stop. There are six loop bodies: generic `read_op`, `mutable_buffers_1`, the two-element `boost::array` and `std::array`, `read_streambuf_op`, and the two synchronous `read()`s. | Asynchronous continuation: each completion of `async_read_some` re-enters `operator()`. Partial reads, eof and buffer arithmetic. |
| WebSocket logger | `websocketpp/logger/basic.hpp` | Channel masks (`set_channels`, `clear_channels`), `write` with its timestamp, and `set_ostream`. | One mutex, `m_lock`, per logger, shared by all calls except `set_ostream`; `std::localtime`'s static result shared by every logger. |
| Thread-local pointer | `src/autowiring/thread_specific_ptr_win.cpp` | Fiber-local storage: `init`, `get`, `set` and `freeTLS`. | Per-thread values, an FLS index pool shared with the whole process, and the failure of `FlsAlloc`. |
| Config naming | `src/autowiring/AutoConfigUnix.cpp`, `ConfigListener.h` | Regex extraction of the class and tag names of a config, and the `Class.Name` key built from them. | None at run time; in release builds the asserts on the regex match are gone. |
| Vendored libraries | mpl, fusion, type_traits, predef, range, container pair, intrusive nodes, serialization, endpoint `operator<<` | Compile-time metaprogramming and formatting. | None. |

The spec describes the runtime these debug routines inspect:
- contexts (a tree of scopes);
- runnables (Waiting, then Started, then Running, then Stopped);
- the filter registry (descriptors with typed input and output arguments);
- packet dispatch.

Only the debug routines are in `src/`. So the registry, the context tree's sibling links and the runnable lifecycle appear here as spec-modelled definitions, marked `spec_modelled` in the map. So do the asio primitives outside `src/`, which follow asio's documented behaviour:
- the completion conditions;
- `consuming_buffers`;
- `read_size_helper`;
- the stream's `read_some`.

## 2. Modules

### FilterRegistry and FilterInfo: the filter-graph queries (AutowiringDebug.cpp:206-300)

**FilterRegistry**
- Each filter type has a fixed argument list, `sig`, chosen in `Init` from every list the bounds allow.
- An argument is one of four kinds, using the `AutoFilterArgument` flags:
  - `in`: `auto_in` or `const T&`, optionally `auto_prev<T,N>` with `tshift`;
  - `out`;
  - `inout`: `T&&`, in place;
  - `ctx`: e.g. `AutoPacket&`, neither input nor output.
- `factory` says whether an `AutoPacketFactory` lives in the context. A context starts without one. `InjectFactory` (from the spec, like `Register`) brings one in.
- `registry` is the sequence of registered filter types. `Register` is `AddSubscriber` on the factory, so it needs `factory`; a duplicate leaves the registry unchanged.
- Three operators follow the source line by line:
  - `DescriptorByName`: the first match in registration order;
  - `IsProvider`: the provider test of `fnCall`, built on `GetArgumentType`, which returns the first argument with the id;
  - `ListRootDecorations`: non-rvalue arguments go to outputs or inputs; inputs minus outputs are the roots.
- `ArgumentProviding` and `UnsatisfiedInputs` are the spec's definitions (4.2). They are the references the code is compared with.

**FilterInfo** extends FilterRegistry.
- `InfoNoFactory` and `RootsNoFactory` are the `if (!factory)` early returns: "No factory detected in this context" and an empty list.
- `AutoFilterInfo(name)` copies the descriptors (`slen` records the length of the copy) and pushes the root frame.
- The recursion of `fnCall` is an explicit stack of frames `[d, i, j]`: the descriptor, the argument index and the candidate provider index.
- Each loop iteration is one action: `InfoSkipArg`, `InfoNextArg`, `InfoSkipProvider`, `InfoVisitProvider` (print, then push a frame) and `InfoReturn`.
- `MaxDepth` bounds the thread's stack. A push beyond it ends the call with status `overflow`.
- `ListRoots` runs `ListRootDecorations` on a fresh copy.
- Registrations interleave with both queries, as they can on the factory's other threads.

### ContextTreePrint: PrintContextTree and PrintRunnables (AutowiringDebug.cpp:70-197)

- Contexts are `1..N` in creation order, and `parent` is any tree in which children are younger than their parents.
- `FirstChild` and `NextSibling` return children in creation order. They are spec-modelled from CoreContext.
- `frames` is the recursion of `PrintContextTreeRecursive`. Each frame holds the context, its phase (name line, then prefix, then children) and the child cursor.
- Each printed line keeps only its indentation columns: bar `|   `, blank, tee `|-- ` or elbow `*-- `. The names are left out.
- The three `PrintContext` indentation routines are recursive operators over the chain of frames (`pParent`).
- `mode` selects the prefix routine: empty for `PrintContextTree`, or one line per runnable (`nrun`) for `PrintRunnables`.
- With `Concurrent`, other threads change the tree during the print (spec-modelled from CoreContext):
  - `CreateChild` appends context `created + 1` under a live parent;
  - `Release(d)` drops a leaf that neither the caller (the root) nor the walk holds. `Held` is the `shared_ptr`s of the frames: each frame's context and its cursor.
  - `base` is the number of contexts when the print started, and `gone` is the set of released contexts.

### RunnableStatus: the status column of PrintRunnables (AutowiringDebug.cpp:171-196)

- Runnables move Waiting, then Started, then Running, then Stopped, on their own threads. `Stop` is allowed from any state. This lifecycle is spec-modelled.
- The printer calls `IsRunning`, `ShouldStop` and `WasStarted` in three separate steps, as the code does.
- `first`, `held` and `last` are history variables:
  - `first`: the state when the line started;
  - `held`: every state held while the line was printed;
  - `last`: the last printed line with its window.

### AsyncRead: asio read() and async_read() (read.hpp:38-110, 152-208, 261-368, 420-440, 486-495, 519-541, 612-636, 699-722)

- Each behaviour runs one read.
- `Init` chooses:
  - the variant;
  - the completion condition (`transfer_all`, `transfer_at_least(k)` or `transfer_exactly(k)`);
  - buffer sizes up to `MaxBuf`;
  - the bytes a streambuf already holds;
  - how many bytes the peer sends before it closes.
- A buffer is a run of slots `<<b, o>>`.
- The request handed to `read_some` is computed as the code computes it:
  - `SingleRequest` is `buffer(buffer_ + total, n)`;
  - `PairRequest` is the `bufs[0]`/`bufs[1]` arithmetic;
  - `ConsumingPrepare` is consuming_buffers;
  - `SbPrepare` with `BytesAvailable` is `streambuf.prepare(read_size_helper(...))`.
- The stream follows the `read_some` contract:
  - an empty request completes at once with no error;
  - otherwise it delivers 1 to `min(len, remaining)` bytes, or eof once the peer has closed.
- Each step action is one whole call of `operator()`, or one iteration of the synchronous loop: delivery, `total_transferred_ +=`, the stop test, and then either the next `read_some` or the handler.
- `placed` records where each stream byte landed. It is the history the data property reads.
- The continuation hint:
  - `start` is `start_`. The op is constructed with `start_(0)`; `operator()` sets it on every call (`switch (start_ = start)`): 1 in the initiating call, 0 in a completion.
  - `async_read_some` is given the op moved into the stream (`ReadOpMove`, the move constructor).
  - The io_service asks `asio_handler_is_continuation` of that copy (`IsContinuation`: `start_ == 0`, or the user's handler's own hint, `userCont`).
  - `hint` is what the outstanding `read_some` was told (`IssueHint`): the hint of the moved op, whose `start_` is the value the same call has just assigned.
- `api` is the overload called: `read(s, b)` and `read(s, b, cond)` throw on error, and the `ec` overloads return the count and the error code. `read(s, b)`, `read(s, b, ec)` and `async_read(s, b, h)` use `transfer_all()`. `Reported` is the result the caller sees.

### ComposedRead: what a composed read promises

- `ComposedRead` is the abstract contract of a composed read, with no buffers, streams or loops in it. A read starts, moves the count forward by positive amounts while the count stays within the capacity (and within k for `transfer_exactly`), and completes.
- It completes with success only when its condition holds, and with eof only once all the data has arrived. A throwing overload reports no count on error.
- An asynchronous read never completes in the step that starts it. A synchronous read whose condition already holds completes at once.
- `AsyncRead` implements it: `Abstract == INSTANCE ComposedRead WITH ...` maps the capacity of the buffers, the bytes the peer sends, the variant's kind and the overload, and `ComposedReadSpec == Abstract!Spec` is a PROPERTY of the async_read run.

### Logger: websocketpp::log::basic (basic.hpp:58-123)

- Threads call `write`, `set_channels`, `clear_channels` and `set_ostream`.
- A level is a set of channel bits. `&`, `|` and `~` become intersection, union and complement.
- `write` is split where another thread can see it:
  1. the lock and `dynamic_test`;
  2. `*m_out << ...`, which reads `m_out` once (`target`);
  3. `m_out->flush()`, which reads `m_out` again, then the unlock.
- `set_ostream` takes no lock. A pointer store is one step: a racing reader sees the old value or the new one.
- `dirty` is the set of streams holding a line that has not been flushed.
- Two contracts of `write()`, one per piece of shared state the lock does not cover. `StampIsOwn`: at the flush, the line carries the time its own `localtime` call read (the static `struct tm`). `FlushedWhereWritten`: a stream holding an unflushed line is one a `write()` still in progress streamed into (the unlocked `m_out`).
- `WriteStamp` is `timestamp()`: `std::localtime` writes the process's one static `struct tm` (`tm`) and the line is formatted from it afterwards. With `OtherLogger`, a second logger (an endpoint has an access and an error log) calls `localtime` at any time (`OtherLocaltime`).

### FilterGraph: WriteAutoFilterGraph (AutowiringDebug.cpp:303-392)

- Extends FilterRegistry. `WriteAutoFilterGraph` is the whole export, as one action: the loop over descriptors (`DescStep`, `FilterStep`, `ArgStep`) is a fold over the copy of the registry, numbering filter and decoration names from one counter (the first occurrence wins). Then come the box and oval labels (`Graph`).
- A filter's node is keyed by `FilterName` (`demangle(desc.GetType())`). `MCFilterGraph` gives either distinct names or two filters with one name.
- `GraphNoFactory` is the `if (!factory)` return: only the header and the closing brace written by `MakeAtExit`, so an empty graph.
- Exports interleave with registrations.

### DemangleName: DemangleWithAutoID (AutowiringDebug.cpp:44-63)

- The pure routine as an operator over character sequences, with `size_t` arithmetic modulo `2^Width`: `find_last_of`, `find_last_not_of` and `substr` as the standard library defines them.
- `Names(Depth, sp)` enumerates type names up to three levels of template nesting, closing with `>>` or `> >`, complete, incomplete (`autowiring::s<T>`) or not decodable.

### LambdaName: IsLambda (AutowiringDebug.cpp:25-41)

- `IsLambda(name)` is the character test. `Names` is a lambda's closure type and five class types, spelled as the Itanium demangler prints them.

### ThreadSpecificPtr: thread_specific_ptr_base on Windows (thread_specific_ptr_win.cpp)

- `InitTLS`, `Set`, `Get` and `FreeTLS` translate the four members.
- Win32 fiber-local storage is spec-modelled from its documentation: `FlsAlloc` hands out the lowest free index or `FLS_OUT_OF_INDEXES`, `FlsSetValue`/`FlsGetValue` fail on an index that is not allocated, and `FlsFree` and thread exit (`ThreadExit`) clear the slots.
- The pool is shared with other users of FLS in the process (`OtherAlloc`, up to `Others`).
- `stored` and `ret` are history: what each thread last set through each object, and what the last `get` returned beside it.

### ConfigName: AutoConfigBase's names (AutoConfigUnix.cpp)

- A demangled name is a sequence of tokens. `Extract` is `std::regex_match` with the pattern `.*M<(?:class |struct )?(\w*)>`, in ECMAScript's backtracking order, and gives `""` when nothing matches (release build).
- `AutoConfigBase(cls, tag)` is the constructor: `Class` from the current stump (`CurrentStumpName`), `Name` from the tag (`ExtractFieldName`), `Field` from `FormatFieldName`.

## 3. Runs

| Run | Module / cfg | Expect | What it shows |
|---|---|---|---|
| filter_info | MCFilterInfo / FilterInfo.cfg | pass | Every registry of up to 3 filters with up to 2 arguments (in/out/inout), registrations interleaved with the queries, and the queries made before a factory exists. `InfoLinesSound`: each printed line names a real provider under a filter that takes the type. `InfoComplete`: when the walk returns, it has printed exactly the transitive providers (spec ArgumentProviding, closed). `RootsMatchSpec`: ListRootDecorations equals UnsatisfiedInputs. |
| info_cycle | MCFilterInfo / InfoCycle.cfg | violation | `AutoFilterInfoReturns` fails: two filters whose only provider cycle passes through an `auto_prev` input (F1 takes B and makes A; F2 takes `auto_prev<A>` and makes B) make fnCall recurse until the stack overflows. The cfg's `PrevCycleSpec` excludes registries with a cycle of zero-shift inputs. |
| tree_print | ContextTreePrint / TreePrint.cfg | pass | Both prints on every tree of up to 5 contexts with up to 1 runnable each, while other threads create and release contexts. `WalkPreOrder`: each context is listed at most once, in pre-order with siblings in creation order and its runnable lines straight after it, and every context that lived through the print is listed. `TreeDrawingConnected`: when nothing changes during PrintContextTree, every bar and tee continues to the next line and every stroke hangs from one. |
| runnable_label | MCRunnableStatus / RunnableLabel.cfg | pass | `LabelWithinWindow`: the printed status is never behind the state at the start of the line, nor ahead of the state when it was chosen. The order of the three queries makes this hold. |
| async_read | AsyncRead / AsyncRead.cfg | pass | Every variant and overload, with buffers of up to 2+2 bytes and a peer that sends up to 4 bytes. `DataInPlace`: every byte lands in bounds, at its place in the stream, and no slot is written twice. `ContinuationHint`: each `read_some` of an `async_read` is hinted as a continuation exactly when it is issued from a completion; the first one gets the caller's handler's hint. `ComposedReadSpec`: the read refines ComposedRead (section 2), liveness included. |
| logger | MCLogger / Logger.cfg | pass | Two threads and two channels, one allowed statically, over two streams, beside a second logger. `LoggedOnlyWhenEnabled`: no line is streamed on a channel another thread disabled after the test. `LockReleased`: no call keeps `m_lock` forever. |
| logger_clock | MCLogger / LoggerClock.cfg | violation | `StampIsOwn` fails: a second logger's `localtime` overwrites the shared `struct tm` between this writer's `localtime` and its formatting. |
| logger_switch | MCLogger / LoggerSwitch.cfg | violation | `FlushedWhereWritten` fails with no second logger: `set_ostream` switches `m_out` between a line and its flush, and the line stays unflushed in the old stream. |
| filter_graph | MCFilterGraph / FilterGraph.cfg | pass | `GraphFaithful`: the exported graph, read back through its labels, is the registry's dependency graph, with one node per filter and per decoration and one edge per (filter, argument) with its direction and shift. Checked on every registry of up to 3 filters with up to 2 arguments. |
| demangle_name | DemangleName / DemangleName.cfg | pass | `NameRoundTrip`: DemangleWithAutoID returns the type's own name, plus ` [i]` for an incomplete type, for every name of up to three levels of nesting in both spellings of `>>`. A name the demangler could not decode is kept whole, with ` [i]`. |
| tls | MCThreadSpecificPtr / ThreadSpecificPtr.cfg | pass | `GetReturnsSet`: when the FLS pool has room, `get()` returns what the same thread last set through the same object. This holds across `freeTLS`, index reuse, other FLS users and thread exits. |
| config_namespace | MCConfigName / ConfigNamespace.cfg | violation | `FieldKeysUnique` fails: tag types declared in a namespace fail the pattern, and two configs of one class both get the key `a.`. |

Further configurations reproduce the other findings (section 4). Run them the same way:

| cfg | Module | Property violated |
|---|---|---|
| InfoRepeatId.cfg | MCFilterInfo | InfoComplete |
| RootsCtx.cfg | MCFilterInfo | RootsMatchSpec |
| RootsInOut.cfg | MCFilterInfo | RootsComplete |
| RunnablesPrint.cfg | ContextTreePrint | DrawingConnected |
| TreeConcurrent.cfg | ContextTreePrint | TreeDrawingConnected, on contexts changed during the print |
| RunnableLabelHeld.cfg | MCRunnableStatus | LabelWasHeld |
| LoggerStamp.cfg | MCLogger | none: `StampIsOwn` holds with one logger |
| GraphNames.cfg | MCFilterGraph | GraphFaithful |
| TlsExhausted.cfg | MCThreadSpecificPtr | GetReturnsSet |
| LambdaName.cfg | LambdaName | IsLambdaExact |

Each property of a passing run has a mutant in `PROJECT.json`. A mutant is a plausible bug in the mapped definition, and TLC finds the property violated under that run's cfg. The mutants:
- a provider test without the rvalue check;
- a walk that does not recurse;
- roots computed from rvalue arguments too;
- a return that forgets `NextSibling`;
- parent indentation drawn from `FirstChild`;
- `WasStarted` asked before `ShouldStop`;
- the second buffer's offset not reduced by the first buffer's size;
- `async_read` completing inline as `read()` does;
- a move constructor that resets `start_` to 0 instead of copying it;
- `clear_channels` without its lock;
- `set_channels` taking the lock before it handles `none`;
- a decoration given a fresh id at every argument;
- the search for blanks before the closing `>` started at the `>` itself;
- `init()` clearing the slot before `m_key` is assigned.

### Bounds and why they are enough

**FilterInfo.** Three filters and two types give every shape of a provider chain of length 2, a diamond, and a filter with both an input and an output.
- `MaxDepth = 4` exceeds the longest acyclic chain of three filters. So in the passing run the walk overflows only on a registry with a provider cycle.
- Such registries are reachable even with `MaxShift = 0`. `InfoComplete` speaks only of walks that return, and `InfoLinesSound` holds for every line printed before an overflow.
- The info_cycle run sets `MaxShift = 1` and restricts the initial registry to those whose provider cycles all pass through an input with `tshift > 0` (`PrevOnlyCycles`). A cycle of zero-shift inputs can never be satisfied by a packet; one through `auto_prev` is the cycle a working program registers. Termination (`AutoFilterInfoReturns`) is checked on those.

**ContextTreePrint.** Five contexts include every shape that needs three levels with siblings: a last child whose parent has a later sibling, and a middle child with children. Those shapes are where the indentation routines differ. With concurrency, a context can be created under, or released beside, every frame of a three-level walk.

**RunnableStatus.** Two runnables give a line printed while another runnable and the printed one both move. All 4×4 pairs of start and end state are reached.

**AsyncRead.**
- `MaxTransfer = 2` is smaller than the combined buffers (up to 4 bytes), so `transfer_all` needs several reads.
- A read can straddle the two buffers of the pair variant.
- `MaxK = 3` makes `transfer_exactly(k)` and `transfer_at_least(k)` both smaller and larger than a buffer.
- `MaxData = 4` lets the peer fill every buffer, or close before that.
- `userCont` takes both values, so the first `read_some` is hinted both ways; `MaxTransfer = 2` forces reads issued from completions.

**Logger.** Two threads suffice for every pairwise race of a lock-free store and a locked two-read sequence. Two bits with one of them static give set, clear and mask cases.

**FilterGraph.** Three filters over two types give a decoration shared by two filters, and a filter with an input and an output of the same type. `MaxShift = 1` gives dotted edges. Symmetry over filters and types is sound because `FilterName` is the identity in this run.

**DemangleName.** `Width = 6` (size_t up to 63) is above every name length, so only the computed `npos - 1` wraps, as it does on a 64-bit build. Three levels are the first depth at which `>>>` and `> > >` occur.

**ThreadSpecificPtr.** Three indexes, one of which another user may take, are enough for both objects and few enough that a freed index is handed to the other object. Two values per object make a stale value visible.

### Fairness

- **FilterInfo:** `WF(InfoStep)`. fnCall runs on the calling thread without blocking.
- **AsyncRead:** `WF(Step)`. An outstanding `read_some` on a peer that sends or closes completes, and the io_service runs the continuation. Nothing is assumed about when a read starts. ComposedRead's `WF(Transfer \/ Complete)` is implied by it under the mapping.
- **Logger:** `WF(Progress(t))` for each thread. A thread inside a call keeps executing. The mutex gives no ordering among waiters, so no strong fairness is assumed. `LockReleased` is therefore stated only about a thread that already holds the lock.
- **The other modules:** no liveness is claimed. `CHECK_DEADLOCK FALSE` is set where the program really stops: the print returns, after the handler runs the read is over, the objects are freed and the threads exit, every config is constructed.

## 4. Findings

`PROJECT.json` "findings" records the four found by the runs. Each of the others is reproduced by the cfg named with it.
1. **AutoFilterInfo does not terminate on provider cycles** (code bug, AutowiringDebug.cpp:257; info_cycle). The cycle needs no mistake by the program: a filter that takes `auto_prev<A>` from one that takes its output is enough.
2. **Log lines can carry another writer's time** (code bug, basic.hpp:135; logger_clock). `std::localtime`'s result is shared by all loggers.
3. **The provider test misses outputs declared after an `auto_prev` of the same type** (divergence from spec 4.2, :251; InfoRepeatId.cfg).
4. **ListRootDecorations reports context arguments as roots** (divergence, :287; RootsCtx.cfg).
5. **ListRootDecorations never reports unproduced in-place inputs** (spec gap, :286; RootsInOut.cfg).
6. **PrintRunnables draws dangling bars under a last child** (code bug, :106; RunnablesPrint.cfg). `PrintAttributeIndentation` tests `FirstChild` where the tree lines test `NextSibling`.
7. **PrintContextTree draws no single tree when contexts change during it** (divergence from spec 5, :142; TreeConcurrent.cfg).
8. **PrintRunnables can print a status the runnable never had** (divergence from spec 3, :174; RunnableLabelHeld.cfg).
9. **`set_ostream` races `write`** (code bug, basic.hpp:81; logger_switch). It takes no lock.
10. **Filters with one demangled name share one node** of the DOT graph (divergence from spec 4.4, :344; GraphNames.cfg).
11. **thread_specific_ptr ignores FlsAlloc failure** (code bug, thread_specific_ptr_win.cpp:16; TlsExhausted.cfg). Every object made after the pool runs out silently loses what is set in it.
12. **Configs whose tag type is in a namespace all get the key `Class.`** (code bug in release builds, AutoConfigUnix.cpp:14; config_namespace).
13. **IsLambda takes some class types for lambdas** (divergence, :28; LambdaName.cfg). Examples are `(anonymous namespace)::A` and `t<A*>`.
14. **`dbg::DescriptorByName(name)` returns a dangling pointer** (code bug, :224). It returns a pointer into the vector `GetAutoFilters()` returned by value, and that temporary is destroyed at the end of the return statement. This was found while mapping the code, not by a run. It is the same on every call, so an address-sanitizer unit test shows it; no model is needed.

## 5. Not modelled

- **Contexts, packets and the filter registry** are not under `src/`. They are spec-modelled only as far as the debug routines read them: `CreateChild` and release during a tree print, and `AddSubscriber`. Decoration and filter firing (spec 4.3) are left out. No code under `src/` drives them, so a model would check the spec against itself.
- **The asio allocation and invocation hooks** (`asio_handler_allocate`, `asio_handler_deallocate`, `asio_handler_invoke`) forward to the user's handler and make no decision. The copy constructors of `read_op` are not used where moves exist. (`asio_handler_is_continuation` and the move constructor are modelled.)
- **CurrentPacket** (AutowiringDebug.cpp:199-204) hands a debugger the raw `AutoPacket*` of the factory's current packet. The pointer owns nothing, and spec 3 leaves a packet's lifetime to its holders, so the helper makes no promise about it to check.
- **ContextName** returns `demangle(sigil)`, and **DebugInit** is a static table that keeps `AutoFilterGraphStr` linked. Neither has state or control flow to check.
- **`dbg::DescriptorByName(name)`** (AutowiringDebug.cpp:219-224) only adds the `!factory` check to the lookup that FilterRegistry models. What it gets wrong is the lifetime of a temporary (finding 14), which needs no interleaving to show.
- **The MSVC `IsLambda`** (lines 18-22) tests the first character of `demangle(ti)`. `demangle.h` is not in the repository, so that character's value is unknown.
- **The vendored libraries** are out of reach for a different reason: they have no interleaving, failure or ordering to explore.
  - mpl, fusion `advance`, `is_polymorphic`, predef and range are metafunctions evaluated by the compiler.
  - container `pair` (constructors, `swap`, lexicographic `operator<`), intrusive `list_node` and the disposers are single-object value code.
  - serialization `string`, `basic_iserializer` and the endpoint `operator<<` each convert one value.
  - A unit test reaches all of this; a module would be a line-by-line copy of it.
- **Text layout** (names, labels, log formatting) is abstracted to what the properties compare.

Each module's `TypeOK` documents its state space. The runs check the properties above instead, so that each checked property is one a mutant can break.
