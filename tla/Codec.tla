--------------------------------- MODULE Codec ---------------------------------
(***************************************************************************)
(* A compression context and the calls made on it: the setters, and        *)
(* stenos_compress_generic / stenos_decompress_generic with their          *)
(* single-threaded loop and their chunked loop over the thread pool.       *)
(*                                                                         *)
(* A buffer is its capacity (0: a null pointer).  A compressed superblock  *)
(* is a record that says where it starts in the frame, its code, its       *)
(* compressed size and which input bytes it holds; what it decompresses to *)
(* is known by these.  The tasks of a chunk run in any order: each one is  *)
(* one action, since tasks share nothing but the context's flags (the pool *)
(* itself is modelled in TinyPool).                                        *)
(***************************************************************************)
EXTENDS Frame, Sequences

CONSTANTS
  Levels, Threads, Customs,   \* arguments the setters are called with
  MayTime,                    \* whether a time limit is ever set
  Inputs,                     \* pairs <<bytesoftype, bytes>> given to compress
  MaxSuperblocks,             \* bound: superblocks of an input that is compressed
  Shortfalls,                 \* how much smaller than Bound the destination is
  Cuts,                       \* how many bytes a frame may have lost at its end
  HasSSE41,                   \* cpu_features().HAS_SSE41
  CompressedSizes,            \* bound: sizes a strategy may give, besides the input's own
  KeptFrames,                 \* bound: <<bytesoftype, bytes, shift>> of frames kept through setters
  Between,                    \* bound: inputs that may be compressed while a frame is kept
  BufferMayFail,              \* whether CBuffer::make may return null
  ResizeMayFail               \* which of the three vector resizes may throw bad_alloc

ASSUME CodecAssumption ==
  /\ Levels \subseteq Int /\ Threads \subseteq Int /\ Customs \subseteq Nat
  /\ Inputs \subseteq Nat \X Nat
  /\ \A x \in Inputs : 0 < x[1] /\ x[1] < STENOS_MAX_BYTESOFTYPE /\ x[2] % x[1] = 0
  /\ MaxSuperblocks \in Nat /\ Shortfalls \subseteq Nat /\ Cuts \subseteq Nat
  /\ {MayTime, HasSSE41, BufferMayFail} \subseteq BOOLEAN
  /\ KeptFrames \subseteq Nat \X Nat \X Nat /\ Between \subseteq Inputs
  /\ CompressedSizes \subseteq Nat \ {0} /\ ResizeMayFail \subseteq 1..3

VARIABLES
  params,           \* level, threads, timed (nanoseconds # 0) and custom shift
  superblock_size,
  thread_buffers, tmp_buffers1, tmp_buffers2,
  finish_memcpy,    \* TimeConstraint::finish_memcpy
  call,             \* the call in progress, with its local variables
  frame,            \* the last frame that was produced, or NoFrame
  result            \* what the last call returned

buffers == <<thread_buffers, tmp_buffers1, tmp_buffers2>>
context == <<params, superblock_size, buffers, finish_memcpy>>
vars == <<params, superblock_size, thread_buffers, tmp_buffers1, tmp_buffers2,
          finish_memcpy, call, frame, result>>

Codes == {"BLOCK", "ZSTD", "TRANSPOSED_ZSTD", "TRANSPOSED_DELTA_ZSTD", "BLOCK_ZSTD", "COPY"}
Errors == {"alloc", "dst_overflow", "src_overflow", "invalid_input",
           "invalid_parameter", "invalid_bytesoftype"}

NoCall == [op |-> "none"]
NoResult == [op |-> "none", error |-> "none", cap |-> 0, bytes |-> 0]
NoFrame == [size |-> 0, header |-> 0, shift |-> 0, superblock |-> 0,
            bytesoftype |-> 1, total |-> 0, blocks |-> {}]
DefaultParams == [level |-> 1, threads |-> 1, timed |-> FALSE, custom |-> NoShift]

\* stenos_make_context.
Init ==
  /\ params = DefaultParams
  /\ superblock_size = 0
  /\ thread_buffers = <<>> /\ tmp_buffers1 = <<>> /\ tmp_buffers2 = <<>>
  /\ finish_memcpy = FALSE
  /\ call = NoCall
  /\ frame = NoFrame
  /\ result = NoResult

Idle == call = NoCall

-----------------------------------------------------------------------------
\* Bound: the caller keeps any frame when it changes the number of threads, but only
\* those of KeptFrames through other setters and the calls that compress Between.
Kept == IF <<frame.bytesoftype, frame.total, frame.shift>> \in KeptFrames THEN frame ELSE NoFrame
KeptDuring(input) == IF input \in Between THEN Kept ELSE NoFrame

\* The setters.

\* Mutant of SetThreads: the number of threads is stored as it is given.
SetThreadsAsGiven ==
  /\ Idle
  /\ \E n \in Threads : params' = [params EXCEPT !.threads = n]
  /\ result' = NoResult
  /\ UNCHANGED <<superblock_size, buffers, finish_memcpy, call, frame>>

SetThreads ==
  /\ Idle
  /\ \E n \in Threads : params' = [params EXCEPT !.threads = IF n < 1 THEN 1 ELSE n]
  /\ result' = NoResult
  /\ UNCHANGED <<superblock_size, buffers, finish_memcpy, call, frame>>

SetParams ==
  /\ Idle
  /\ \/ \E l \in Levels :
          params' = [params EXCEPT !.level = IF l > 9 THEN 9 ELSE IF l < 0 THEN 0 ELSE l]
     \/ \E b \in (IF MayTime THEN BOOLEAN ELSE {FALSE}) : params' = [params EXCEPT !.timed = b]
     \/ \E s \in Customs :                        \* a shift of 16 or more is refused
          params' = [params EXCEPT !.custom = IF s >= 16 /\ s # NoShift THEN @ ELSE s]
  /\ result' = NoResult /\ frame' = Kept
  /\ UNCHANGED <<superblock_size, buffers, finish_memcpy, call>>

\* stenos_reset_context: the custom block shift survives it.
ResetContext ==
  /\ Idle
  /\ params' = [params EXCEPT !.level = 1, !.threads = 1, !.timed = FALSE]
  /\ result' = NoResult /\ frame' = Kept
  /\ UNCHANGED <<superblock_size, buffers, finish_memcpy, call>>

\* Mutant of UseSuperblockSize: the buffers of the old size stay.
UseSuperblockSizeKeepBuffers(size) ==
  superblock_size' = size /\ UNCHANGED buffers

\* Change the superblock size; buffers of the old size are freed.  clear_buffers
\* goes through the last two vectors by the length of the second: what it does
\* when the third is shorter is undefined.
UseSuperblockSize(size) ==
  /\ superblock_size' = size
  /\ IF size = superblock_size
     THEN UNCHANGED buffers
     ELSE /\ Len(tmp_buffers1) <= Len(tmp_buffers2)
          /\ thread_buffers' = <<>> /\ tmp_buffers1' = <<>> /\ tmp_buffers2' = <<>>

\* vector::resize(n, nullptr) of a vector that must have at least n entries.
Resized(v, n) == v \o [i \in 1..(n - Len(v)) |-> 0]

\* Mutant of EnsureSucceeds: buffers are only ever added to an empty vector.
EnsureOnce(n) ==
  IF Len(thread_buffers) = 0
  THEN /\ thread_buffers' = Resized(thread_buffers, n)
       /\ tmp_buffers1' = Resized(tmp_buffers1, n)
       /\ tmp_buffers2' = Resized(tmp_buffers2, n)
  ELSE UNCHANGED buffers

\* ensure_has_buffers(n): three resizes guarded by the size of the first
\* vector.  A resize that throws leaves the vectors after it as they were.
EnsureSucceeds(n) ==
  IF Len(thread_buffers) < n
  THEN /\ thread_buffers' = Resized(thread_buffers, n)
       /\ tmp_buffers1' = Resized(tmp_buffers1, n)
       /\ tmp_buffers2' = Resized(tmp_buffers2, n)
  ELSE UNCHANGED buffers

EnsureFails(n) ==
  /\ Len(thread_buffers) < n
  /\ \E k \in ResizeMayFail :
       /\ thread_buffers' = IF k > 1 THEN Resized(thread_buffers, n) ELSE thread_buffers
       /\ tmp_buffers1' = IF k > 2 THEN Resized(tmp_buffers1, n) ELSE tmp_buffers1
       /\ UNCHANGED tmp_buffers2

\* Whether both temporary buffers number i are there to be referred to.
HasTmpBuffers(i) == i <= Len(tmp_buffers1) /\ i <= Len(tmp_buffers2)

\* What CBuffer::make leaves in a slot that holds `buffer`.
Made(buffer) ==
  IF buffer # 0 THEN {buffer}
  ELSE {superblock_size + 4} \union (IF BufferMayFail THEN {0} ELSE {})

\* The end of a call: its result, and the locals are gone.
Finish(r) == call' = NoCall /\ result' = r

-----------------------------------------------------------------------------
\* compress_generic_superblock.  `len` input bytes go to a destination of
\* `room` bytes; b1 and b2 tell whether the temporary buffers exist.

\* The paths that copy without trying anything.
CopiesAtOnce(len) ==
  len = 0 \/ finish_memcpy \/ (params.level = 0 /\ ~params.timed)

\* The temporary buffers are wanted: not for short input, and not on the paths
\* that lead straight to block compression.
MustBlockDirectly(bytesoftype) ==
  bytesoftype > 1 /\ HasSSE41 /\ ~params.timed /\ params.level < 2
MayBlockDirectly(bytesoftype) ==
  bytesoftype > 1 /\ HasSSE41 /\ (params.timed \/ params.level < 2)

\* The transposed strategies need their ratio to have been guessed.
GuessesTransposed(bytesoftype, len) ==
  bytesoftype > 1 /\ (\/ ~HasSSE41
                      \/ len >= bytesoftype * 256 /\ (params.timed \/ params.level > 2))

CodesWithBuffers(bytesoftype, len) ==
  {"BLOCK", "BLOCK_ZSTD", "ZSTD"} \union
  (IF GuessesTransposed(bytesoftype, len)
   THEN {"TRANSPOSED_ZSTD", "TRANSPOSED_DELTA_ZSTD"} ELSE {})

\* The codes a strategy may end in, besides COPY when it does not pay.
CodesFor(bytesoftype, len, path) ==
  CASE path = "copy"   -> {}
    [] path = "zstd"   -> {"ZSTD"}
    [] path = "block"  -> {"BLOCK"}
    [] path = "buffers" -> CodesWithBuffers(bytesoftype, len)

Paths(bytesoftype, len) ==
  IF CopiesAtOnce(len) THEN {"copy"}
  ELSE IF len < 128 THEN {"zstd"}
  ELSE (IF MayBlockDirectly(bytesoftype) THEN {"block"} ELSE {})
       \union (IF MustBlockDirectly(bytesoftype) THEN {} ELSE {"buffers"})

\* Mutant of Outcomes: the test of the copy forgets the four bytes of the
\* superblock header.
OutcomesNoHeaderRoom(codes, len, room) ==
  {[code |-> c, csize |-> s, error |-> "none"] :
     c \in codes, s \in {s \in CompressedSizes : s <= len /\ s + 4 <= room}}
  \union (IF len <= room THEN {[code |-> "COPY", csize |-> len, error |-> "none"]}
          ELSE {[code |-> "COPY", csize |-> 0, error |-> "dst_overflow"]})

\* Every strategy keeps its result if it is no longer than the input and fits;
\* otherwise the superblock is copied, which needs len + 4 bytes.
Outcomes(codes, len, room) ==
  {[code |-> c, csize |-> s, error |-> "none"] :
     c \in codes, s \in {s \in CompressedSizes : s <= len /\ s + 4 <= room}}
  \union (IF len + 4 <= room THEN {[code |-> "COPY", csize |-> len, error |-> "none"]}
          ELSE {[code |-> "COPY", csize |-> 0, error |-> "dst_overflow"]})

\* The temporary buffers number i after a path: made if missing and wanted.
TmpBuffers(i, path) ==
  IF path = "buffers" THEN Made(tmp_buffers1[i]) \X Made(tmp_buffers2[i])
                      ELSE {<<tmp_buffers1[i], tmp_buffers2[i]>>}

\* The order to copy that a path leaves: with a time limit, every path but the
\* immediate copy may find that only copies fit in the time left.
Orders(path) == {finish_memcpy, finish_memcpy \/ (params.timed /\ path # "copy")}

\* A path taken with the temporary buffers b: without both of them only zstd is
\* tried.
PathResults(path, b, bytesoftype, len, room) ==
  LET codes == CodesFor(bytesoftype, len,
                        IF path = "buffers" /\ 0 \in {b[1], b[2]} THEN "zstd" ELSE path)
  IN  {[out |-> o, b1 |-> b[1], b2 |-> b[2], finish |-> f] :
         o \in Outcomes(codes, len, room), f \in Orders(path)}

\* One superblock of `len` bytes into `room` bytes, with the temporary buffers
\* number i.
SuperblockResults(i, bytesoftype, len, room) ==
  UNION {UNION {PathResults(path, b, bytesoftype, len, room) : b \in TmpBuffers(i, path)} :
           path \in Paths(bytesoftype, len)}

-----------------------------------------------------------------------------
\* stenos_compress_generic.

Count == Pieces(call.frame.total, superblock_size)
ThreadCount == Min2(params.threads, Count)      \* `threads`: tasks per chunk
Mono == params.threads <= 1 \/ Count = 1
RawMemcpy == ~params.timed /\ params.level = 0
ChunkSize == Min2(ThreadCount, call.chunks)     \* `thread_count`
ChunkDone == call.tasks = {}                    \* what pool->wait() waits for

Returned(op, e, cap, bytes) == [op |-> op, error |-> e, cap |-> cap, bytes |-> bytes]
CompressFails(e) ==
  Finish(Returned("compress", e, call.cap, call.frame.total)) /\ UNCHANGED frame

\* The input bytes of task i of a chunk (i = 1 in the single-threaded loop).
From(i) == call.src + (i - 1) * superblock_size
Length(i) == Min2(call.frame.total - From(i), superblock_size)

BlockAt(at, out, i) ==
  [at |-> at, code |-> out.code, csize |-> out.csize, from |-> From(i), len |-> Length(i)]

\* prepare, the header, and the end of the call for an empty input.
CompressBegin ==
  /\ Idle
  /\ \E input \in Inputs, short \in Shortfalls :
       LET bytesoftype == input[1]
           bytes == input[2]
           cap   == IF short > Bound(bytes) THEN 0 ELSE Bound(bytes) - short
           error == PlanError(params, bytesoftype, bytes)
           plan  == Plan(params, bytesoftype, bytes)
           head  == HeaderSize(params)
           new   == [size |-> head, header |-> head, shift |-> plan.shift,
                     superblock |-> plan.superblock, bytesoftype |-> bytesoftype,
                     total |-> bytes, blocks |-> {}]
           done(e) == Returned("compress", e, cap, bytes)
       IN  IF error # "none"
           THEN Finish(done(error)) /\ UNCHANGED context /\ frame' = KeptDuring(input)
           ELSE /\ Pieces(bytes, plan.superblock) <= MaxSuperblocks
                /\ UseSuperblockSize(plan.superblock)
                /\ finish_memcpy' = (finish_memcpy /\ ~params.timed)
                /\ UNCHANGED params
                /\ CASE cap < head -> Finish(done("dst_overflow")) /\ frame' = KeptDuring(input)
                     [] cap >= head /\ bytes = 0 -> Finish(done("none")) /\ frame' = new
                     [] OTHER ->
                          /\ call' = [op |-> "compress", phase |-> "ensure", cap |-> cap,
                                      frame |-> new, src |-> 0, tasks |-> {}, outs |-> <<>>,
                                      chunks |-> Pieces(bytes, plan.superblock),
                                      res_code |-> "none"]
                          /\ frame' = KeptDuring(input) /\ result' = NoResult

Compressing(phase) == call.op = "compress" /\ call.phase = phase

\* The output size of a plain copy: the last superblock counts as the remainder.
RawSize ==
  4 * Count + (Count - 1) * superblock_size + (call.frame.total % superblock_size)

\* ensure_has_buffers, or the check of the output size of a plain copy.
CompressEnsure ==
  /\ Compressing("ensure")
  /\ UNCHANGED <<params, superblock_size, finish_memcpy>>
  /\ \/ /\ ~Mono /\ RawMemcpy
        /\ IF call.frame.size + RawSize > call.cap
           THEN CompressFails("dst_overflow")
           ELSE call' = [call EXCEPT !.phase = "fork"] /\ UNCHANGED <<frame, result>>
        /\ UNCHANGED buffers
     \/ /\ Mono \/ ~RawMemcpy
        /\ EnsureSucceeds(IF Mono THEN 1 ELSE ThreadCount)
        /\ call' = [call EXCEPT !.phase = IF Mono THEN "one" ELSE "fork"]
        /\ UNCHANGED <<frame, result>>
     \/ /\ Mono \/ ~RawMemcpy
        /\ EnsureFails(IF Mono THEN 1 ELSE ThreadCount)
        /\ CompressFails("alloc")

\* The frame with these blocks added, `size` bytes longer.
Longer(blocks, size) ==
  [call.frame EXCEPT !.blocks = @ \union blocks, !.size = @ + size]

\* The call goes on with the next superblocks, or returns the frame.
Advance(new, n, phase) ==
  IF call.chunks = n
  THEN /\ frame' = new
       /\ Finish(Returned("compress", "none", call.cap, new.total))
  ELSE /\ call' = [call EXCEPT !.phase = phase, !.frame = new, !.chunks = @ - n,
                               !.src = @ + n * superblock_size, !.outs = <<>>]
       /\ UNCHANGED <<frame, result>>

\* The single-threaded loop: one superblock, straight into the destination.
CompressOne ==
  /\ Compressing("one") /\ HasTmpBuffers(1)
  /\ \E r \in SuperblockResults(1, call.frame.bytesoftype, Length(1), call.cap - call.frame.size) :
       /\ tmp_buffers1' = [tmp_buffers1 EXCEPT ![1] = r.b1]
       /\ tmp_buffers2' = [tmp_buffers2 EXCEPT ![1] = r.b2]
       /\ finish_memcpy' = r.finish
       /\ IF r.out.error # "none"
          THEN CompressFails(r.out.error)
          ELSE Advance(Longer({BlockAt(call.frame.size, r.out, 1)}, 4 + r.out.csize), 1, "one")
  /\ UNCHANGED <<params, superblock_size, thread_buffers>>

\* The chunked loop: push one task per superblock of the chunk.
ForkChunk ==
  /\ Compressing("fork")
  /\ call' = [call EXCEPT !.phase = "tasks", !.tasks = 1..ChunkSize,
                          !.outs = [i \in 1..ChunkSize |-> 0]]
  /\ UNCHANGED <<context, frame, result>>

\* A task that compresses: into the thread buffer of its index, if it exists.
CompressTask(i) ==
  /\ Compressing("tasks") /\ ~RawMemcpy
  /\ i \in call.tasks
  /\ \E buffer \in Made(thread_buffers[i]) :
       /\ thread_buffers' = [thread_buffers EXCEPT ![i] = buffer]
       /\ \/ /\ buffer = 0
             /\ call' = [call EXCEPT !.tasks = @ \ {i}]
             /\ UNCHANGED <<tmp_buffers1, tmp_buffers2, finish_memcpy>>
          \/ /\ buffer # 0
             /\ HasTmpBuffers(i)
             /\ \E r \in SuperblockResults(i, call.frame.bytesoftype, Length(i), superblock_size + 4) :
                  /\ tmp_buffers1' = [tmp_buffers1 EXCEPT ![i] = r.b1]
                  /\ tmp_buffers2' = [tmp_buffers2 EXCEPT ![i] = r.b2]
                  /\ finish_memcpy' = r.finish
                  /\ call' = [call EXCEPT !.tasks = @ \ {i}, !.outs[i] = r.out]
  /\ UNCHANGED <<params, superblock_size, frame, result>>

\* A task of level 0: copy to the place the superblock has when every one before
\* it is full.  The result of compress_memcpy is ignored.
RawTask(i) ==
  /\ Compressing("tasks") /\ RawMemcpy
  /\ i \in call.tasks
  /\ LET at  == call.frame.size + (i - 1) * (superblock_size + 4)
         out == [code |-> "COPY", csize |-> Length(i)]
     IN  call' = [call EXCEPT !.tasks = @ \ {i},
                    !.frame.blocks = IF call.cap - at < Length(i) + 4 THEN @
                                     ELSE @ \union {BlockAt(at, out, i)}]
  /\ UNCHANGED <<context, frame, result>>

\* f[1] + ... + f[n], as a loop over a chunk computes it.
SumUpTo(f, n) ==
  LET sum[k \in 0..n] == IF k = 0 THEN 0 ELSE sum[k - 1] + f[k] IN sum[n]

\* Mutant of OutSize: the headers of the superblocks are not counted.
OutSizeNoHeaders(n) == SumUpTo([i \in 1..n |-> call.outs[i].csize], n)

\* The sizes of the first n superblocks of the chunk, with their headers.
OutSize(n) == SumUpTo([i \in 1..n |-> call.outs[i].csize + 4], n)

\* After the wait: errors, then the position of every superblock.
JoinRaw ==
  /\ Compressing("tasks") /\ RawMemcpy /\ ChunkDone
  /\ LET n    == ChunkSize
         size == SumUpTo([i \in 1..n |-> Length(i) + 4], n)
     IN  IF call.frame.size + size > call.cap
         THEN CompressFails("dst_overflow")
         ELSE Advance(Longer({}, size), n, "fork")
  /\ UNCHANGED context

JoinChunk ==
  /\ Compressing("tasks") /\ ~RawMemcpy /\ ChunkDone
  /\ LET n       == ChunkSize
         failed  == {i \in 1..n : thread_buffers[i] = 0 \/ call.outs[i].error # "none"}
         first   == CHOOSE i \in failed : \A j \in failed : i <= j
     IN  IF failed # {}
         THEN CompressFails(IF thread_buffers[first] = 0 THEN "alloc" ELSE "dst_overflow")
         ELSE /\ call' = [call EXCEPT !.phase = "copy", !.tasks = 1..n]
              /\ UNCHANGED <<frame, result>>
  /\ UNCHANGED context

\* A task that copies its thread buffer to the destination.
CopyTask(i) ==
  /\ Compressing("copy")
  /\ i \in call.tasks
  /\ LET at  == call.frame.size + OutSize(i - 1)
         out == call.outs[i]
     IN  call' = IF at + 4 + out.csize > call.cap
                 THEN [call EXCEPT !.tasks = @ \ {i}, !.res_code = "dst_overflow"]
                 ELSE [call EXCEPT !.tasks = @ \ {i},
                                   !.frame.blocks = @ \union {BlockAt(at, out, i)}]
  /\ UNCHANGED <<context, frame, result>>

JoinCopy ==
  /\ Compressing("copy") /\ ChunkDone
  /\ IF call.res_code # "none"
     THEN CompressFails(call.res_code)
     ELSE Advance(Longer({}, OutSize(ChunkSize)), ChunkSize, "fork")
  /\ UNCHANGED context

-----------------------------------------------------------------------------
\* stenos_decompress_generic.  A call that reads where no superblock starts gets
\* whatever is there: it returns any error, or restores unknown bytes.

CodeNumber(code) ==
  CASE code = "BLOCK" -> 1 [] code = "ZSTD" -> 2 [] code = "TRANSPOSED_ZSTD" -> 3
    [] code = "TRANSPOSED_DELTA_ZSTD" -> 4 [] code = "BLOCK_ZSTD" -> 5 [] code = "COPY" -> 6

BlocksAt(f, at) == {b \in f.blocks : b.at = at}

\* The 4 bytes after the first 8: the superblock size, or, when the header does
\* not hold it, the code and the compressed size of the first superblock.
StoredSuperblockSizes(f) ==
  IF f.header = 12 THEN {f.superblock}
  ELSE {CodeNumber(b.code) + 256 * b.csize : b \in BlocksAt(f, f.header)}

\* Mutant of SuperblockSizes: the context keeps the size of its last call.
ContextSizes(f) ==
  IF superblock_size = 0 THEN StoredSuperblockSizes(f) ELSE {superblock_size}

\* Mutant of SuperblockSizes: the shift of the header is not applied.
UnshiftedSizes(f) ==
  IF f.shift = 255 THEN StoredSuperblockSizes(f) ELSE {SuperBlockSize(f.bytesoftype * 256)}

\* The superblock size the decompressor goes by (a set of one).
SuperblockSizes(f) ==
  IF f.shift = 255 THEN StoredSuperblockSizes(f)
                   ELSE {ShiftLeft(SuperBlockSize(f.bytesoftype * 256), f.shift)}

DecompressReturns(e) ==
  /\ Finish([op |-> "decompress", error |-> e, cap |-> call.cap, bytes |-> call.size,
             restored |-> {}])
  /\ UNCHANGED frame

\* The header of the frame.
HeaderRead == IF frame.shift = 255 THEN 12 ELSE 8

\* The calls that end with the header: `size` bytes of the frame are given, and
\* `cap` bytes for the output.
DecompressEnds(size, cap) ==
  LET done(e) == [op |-> "decompress", error |-> e, cap |-> cap, bytes |-> size,
                  restored |-> {}]
  IN  /\ \/ /\ size < 8 \/ (size < HeaderRead /\ frame.total \in 1..cap)
            /\ Finish(done("src_overflow"))
         \/ size >= 8 /\ frame.total > cap /\ Finish(done("dst_overflow"))
         \/ size >= 8 /\ frame.total = 0 /\ Finish(done("none"))
      /\ UNCHANGED context

\* The others take the superblock size of the frame.
DecompressStarts(size, cap) ==
  /\ size >= HeaderRead /\ frame.total \in 1..cap
  /\ \E superblock \in SuperblockSizes(frame) :
       /\ UseSuperblockSize(superblock)
       /\ call' = [op |-> "decompress", phase |-> "ensure", size |-> size, cap |-> cap,
                   frame |-> frame, src |-> HeaderRead, dst |-> 0, restored |-> {},
                   chunks |-> Pieces(frame.total, superblock), tasks |-> {},
                   blocks |-> <<>>, rets |-> <<>>]
  /\ UNCHANGED <<params, finish_memcpy>>
  /\ result' = NoResult

DecompressBegin ==
  /\ Idle
  /\ frame # NoFrame
  /\ \E cut \in Cuts, short \in {0, 1} :
       LET size == frame.size - cut
           cap  == IF frame.total = 0 THEN 0 ELSE frame.total - short
       IN  cut < frame.size /\ (DecompressEnds(size, cap) \/ DecompressStarts(size, cap))
  /\ UNCHANGED frame

Decompressing(phase) == call.op = "decompress" /\ call.phase = phase

DecompressEnsure ==
  /\ Decompressing("ensure")
  /\ UNCHANGED <<params, superblock_size, finish_memcpy>>
  /\ \/ /\ EnsureSucceeds(IF Mono THEN 1 ELSE ThreadCount)
        /\ call' = [call EXCEPT !.phase = IF Mono THEN "one" ELSE "read"]
        /\ UNCHANGED <<frame, result>>
     \/ /\ EnsureFails(IF Mono THEN 1 ELSE ThreadCount)
        /\ DecompressReturns("alloc")

\* The output size of the superblock with `left` superblocks after it: for the
\* last one it is the remainder of the size.
OutputSize(left) ==
  IF left = 0 THEN call.frame.total % superblock_size ELSE superblock_size

\* decompress_generic_superblock into `dsize` bytes: the results, with the
\* buffer each leaves.
NeedsBuffer(code) == code \in {"TRANSPOSED_ZSTD", "TRANSPOSED_DELTA_ZSTD", "BLOCK_ZSTD"}

Decodes(block, dsize) ==
  CASE block.code = "COPY" -> dsize = block.csize
    [] block.code = "ZSTD" -> block.len <= dsize
    [] block.code \in {"TRANSPOSED_ZSTD", "TRANSPOSED_DELTA_ZSTD"} -> block.len = dsize
    [] block.code \in {"BLOCK", "BLOCK_ZSTD"} -> dsize \in {0, block.len}

DecodeResults(block, dsize, buffer) ==
  LET verdict == IF Decodes(block, dsize) THEN "none" ELSE "invalid_input"
  IN  IF NeedsBuffer(block.code)
      THEN {[buffer |-> b, error |-> IF b = 0 THEN "alloc" ELSE verdict] : b \in Made(buffer)}
      ELSE {[buffer |-> buffer, error |-> verdict]}

\* Mutant of FitsBoth: the compressed bytes are not checked against the source.
FitsDestination(src, csize, dst, dsize) == dst + dsize <= call.cap

\* `csize` and `dsize` bytes stay inside the source and the destination.
FitsBoth(src, csize, dst, dsize) == src + 4 + csize <= call.size /\ dst + dsize <= call.cap

Restored(block, dst, dsize) == [to |-> dst, from |-> block.from, len |-> dsize]

\* Reading the record at `src` when no superblock starts there.
ReadGarbage ==
  \E e \in {"src_overflow", "invalid_input", "none"} :
     /\ Finish([op |-> "decompress", error |-> e, cap |-> call.cap, bytes |-> call.size,
                restored |-> {[to |-> 0, from |-> -1, len |-> call.cap]}])
     /\ UNCHANGED <<context, frame>>

\* Mutant of AdvanceOutput: the length of the output is not checked.
AdvanceOutputUnchecked(n, src, dst, restored, phase) ==
  IF call.chunks = n
  THEN /\ Finish([op |-> "decompress", cap |-> call.cap, bytes |-> call.size,
                  error |-> "none", restored |-> restored])
       /\ UNCHANGED frame
  ELSE /\ call' = [call EXCEPT !.phase = phase, !.chunks = @ - n, !.src = src, !.dst = dst,
                               !.restored = restored, !.blocks = <<>>, !.rets = <<>>]
       /\ UNCHANGED <<frame, result>>

\* The output is complete, or the call goes on with the superblocks that are left.
AdvanceOutput(n, src, dst, restored, phase) ==
  IF call.chunks = n
  THEN /\ Finish([op |-> "decompress", cap |-> call.cap, bytes |-> call.size,
                  error |-> IF dst = call.frame.total THEN "none" ELSE "invalid_input",
                  restored |-> restored])
       /\ UNCHANGED frame
  ELSE /\ call' = [call EXCEPT !.phase = phase, !.chunks = @ - n, !.src = src, !.dst = dst,
                               !.restored = restored, !.blocks = <<>>, !.rets = <<>>]
       /\ UNCHANGED <<frame, result>>

\* The single-threaded loop, with the first temporary buffer.
DecompressOne ==
  /\ Decompressing("one")
  /\ LET dsize == OutputSize(call.chunks - 1)
     IN  IF call.src + 4 > call.size
         THEN DecompressReturns("src_overflow") /\ UNCHANGED context
         ELSE IF BlocksAt(call.frame, call.src) = {} THEN ReadGarbage
         ELSE \E block \in BlocksAt(call.frame, call.src) :
                IF ~FitsBoth(call.src, block.csize, call.dst, dsize)
                THEN DecompressReturns("invalid_input") /\ UNCHANGED context
                ELSE /\ tmp_buffers1 # <<>>
                     /\ \E r \in DecodeResults(block, dsize, tmp_buffers1[1]) :
                          /\ tmp_buffers1' = [tmp_buffers1 EXCEPT ![1] = r.buffer]
                          /\ IF r.error # "none"
                             THEN DecompressReturns(r.error)
                             ELSE AdvanceOutput(1, call.src + 4 + block.csize, call.dst + dsize,
                                    call.restored \union {Restored(block, call.dst, dsize)}, "one")
                          /\ UNCHANGED <<params, superblock_size, thread_buffers, tmp_buffers2,
                                         finish_memcpy>>

\* The chunked loop: read the records of the next superblocks, one after the
\* other, then push a task for each.
ReadBlock ==
  /\ Decompressing("read") /\ Len(call.blocks) < ChunkSize
  /\ UNCHANGED context
  /\ LET n     == Len(call.blocks)
         dsize == OutputSize(call.chunks - n - 1)
     IN  IF call.src + 4 >= call.size
         THEN DecompressReturns("src_overflow")
         ELSE IF BlocksAt(call.frame, call.src) = {} THEN ReadGarbage
         ELSE \E block \in BlocksAt(call.frame, call.src) :
                IF ~FitsBoth(call.src, block.csize, call.dst, dsize)
                THEN DecompressReturns("invalid_input")
                ELSE /\ call' = [call EXCEPT !.blocks = Append(@, [block |-> block,
                                                  dsize |-> dsize, dst |-> call.dst]),
                                             !.src = @ + 4 + block.csize, !.dst = @ + dsize]
                     /\ UNCHANGED <<frame, result>>

ForkDecompress ==
  /\ Decompressing("read") /\ Len(call.blocks) = ChunkSize
  /\ call' = [call EXCEPT !.phase = "tasks", !.tasks = 1..ChunkSize,
                          !.rets = [i \in 1..ChunkSize |-> "none"]]
  /\ UNCHANGED <<context, frame, result>>

\* A task, with the thread buffer of its index.
DecompressTask(i) ==
  /\ Decompressing("tasks")
  /\ i \in call.tasks
  /\ LET b == call.blocks[i]
     IN  \E r \in DecodeResults(b.block, b.dsize, thread_buffers[i]) :
           /\ thread_buffers' = [thread_buffers EXCEPT ![i] = r.buffer]
           /\ call' = [call EXCEPT !.tasks = @ \ {i}, !.rets[i] = r.error,
                         !.restored = @ \union {Restored(b.block, b.dst, b.dsize)}]
  /\ UNCHANGED <<params, superblock_size, tmp_buffers1, tmp_buffers2, finish_memcpy,
                 frame, result>>

JoinDecompress ==
  /\ Decompressing("tasks") /\ ChunkDone
  /\ LET failed == {i \in 1..ChunkSize : call.rets[i] # "none"}
     IN  IF failed # {}
         THEN DecompressReturns(call.rets[CHOOSE i \in failed : \A j \in failed : i <= j])
         ELSE AdvanceOutput(ChunkSize, call.src, call.dst, call.restored, "read")
  /\ UNCHANGED context

-----------------------------------------------------------------------------
Step ==
  \/ CompressEnsure \/ CompressOne \/ ForkChunk \/ JoinRaw \/ JoinChunk \/ JoinCopy
  \/ \E i \in 1..Len(thread_buffers) : CompressTask(i) \/ DecompressTask(i)
  \/ call.op # "none" /\ \E i \in call.tasks : RawTask(i) \/ CopyTask(i)
  \/ DecompressEnsure \/ DecompressOne \/ ReadBlock \/ ForkDecompress \/ JoinDecompress

\* A temporary buffer that does not exist is referred to: what follows is
\* undefined, and nothing is said of it.
Undefined ==
  /\ \/ Compressing("one") /\ ~HasTmpBuffers(1)
     \/ Decompressing("one") /\ tmp_buffers1 = <<>>
     \/ Compressing("tasks") /\ ~RawMemcpy /\ \E i \in call.tasks : ~HasTmpBuffers(i)
  /\ UNCHANGED vars

Next == Undefined \/ SetThreads \/ SetParams \/ ResetContext \/ CompressBegin \/ DecompressBegin \/ Step

Spec == Init /\ [][Next]_vars

-----------------------------------------------------------------------------
\* The context and the frame only take these values.
TypeOK ==
  /\ params \in [level : 0..9, threads : Nat \ {0}, timed : BOOLEAN,
                 custom : (0..15) \union {NoShift}]
  /\ superblock_size \in Nat
  /\ \A v \in {thread_buffers, tmp_buffers1, tmp_buffers2} : v \in Seq(Nat)
  /\ finish_memcpy \in BOOLEAN
  /\ call.op \in {"none", "compress", "decompress"}
  /\ frame.size \in Nat
  /\ \A b \in frame.blocks : b.code \in Codes /\ b.csize \in 1..STENOS_MAX_BLOCK_BYTES
  /\ result.error \in Errors \union {"none"}

\* Whatever calls the context served before, with whatever superblock sizes, a
\* buffer that exists has room for a superblock of the current size and its
\* header: what every strategy and every task of stenos.cpp writes at most.
BuffersFit ==
  \A v \in {thread_buffers, tmp_buffers1, tmp_buffers2} :
    \A i \in DOMAIN v : v[i] \in {0, superblock_size + 4}

\* The buffers of `v` that the running call indexes exist: the loop's first one,
\* and those of every task that was pushed and has not run yet.
InRange(v) ==
  call.op # "none" =>
    /\ call.phase = "one" => Len(v) >= 1
    /\ call.phase = "tasks" /\ (call.op = "decompress" \/ ~RawMemcpy) =>
         call.tasks \subseteq 1..Len(v)

LengthsAgree ==
  Len(tmp_buffers1) = Len(thread_buffers) /\ Len(tmp_buffers2) = Len(thread_buffers)

\* Whatever resize threw in an earlier call, the thread buffers that a call indexes
\* exist.  So do the temporary ones, unless the lengths of the vectors have parted,
\* and they only part in a call that returns STENOS_ERROR_ALLOC.
BuffersInRange ==
  /\ [](InRange(thread_buffers) /\ (LengthsAgree => InRange(tmp_buffers1) /\ InRange(tmp_buffers2)))
  /\ [][LengthsAgree /\ ~LengthsAgree' => call.phase = "ensure" /\ result'.error = "alloc"]_vars

\* `b` is the first superblock of a frame, or starts where another one ends, in
\* the frame and in the input.
Follows(f, b) ==
  \/ b.from = 0 /\ b.at = f.header
  \/ \E p \in f.blocks : p.from + p.len = b.from /\ p.at + 4 + p.csize = b.at

\* A frame that was returned holds one superblock per piece of the input, end to
\* end and in the order of the input, up to its last byte: the tasks of a chunk,
\* whatever order they ran in, wrote what the single-threaded loop writes.
FrameIsContiguous ==
  frame.total > 0 =>
    /\ \A b \in frame.blocks : Follows(frame, b)
    /\ \A b, c \in frame.blocks : b.from = c.from => b = c
    /\ \E b \in frame.blocks : b.from + b.len = frame.total /\ b.at + 4 + b.csize = frame.size
    /\ \A b \in frame.blocks : b.len = frame.superblock \/ b.from + b.len = frame.total

\* No superblock is written past the end of the destination, or over the header
\* or another superblock: not in a frame that is returned, nor while the tasks of
\* a chunk write at the same time, even when the call will report an overflow.
WritesStayApart ==
  /\ call.op = "compress" =>
       \A b \in call.frame.blocks :
         /\ call.frame.header <= b.at /\ b.at + 4 + b.csize <= call.cap
         /\ \A c \in call.frame.blocks : \/ b = c
                                         \/ b.at + 4 + b.csize <= c.at
                                         \/ c.at + 4 + c.csize <= b.at
  /\ result.op = "compress" /\ result.error = "none" => frame.size <= result.cap

\* stenos_bound: with the default superblock sizes, a destination of that many
\* bytes never overflows, timed or not, for any level and number of threads.
BoundIsEnough ==
  result.op = "compress" /\ result.cap >= Bound(result.bytes) /\ params.custom = NoShift
    => result.error # "dst_overflow"

\* The decompressor reads the header that the compressor wrote.
Readable(f) == (f.shift = 255) <=> (f.header = 12)

Decompressed == result.op = "decompress"
Intact == result.bytes = frame.size /\ result.cap >= frame.total
Exact(f) == f.total > 0 /\ f.total % f.superblock = 0

\* Decompressing an intact frame succeeds, whatever the context was used for
\* before and however many threads each side has, unless an allocation fails.
RoundTrip ==
  Decompressed /\ Intact /\ Readable(frame) /\ ~Exact(frame) =>
    \/ result.error = "none"
    \/ result.error = "alloc" /\ (BufferMayFail \/ ResizeMayFail # {})

\* A decompression that reports success has put every byte of the input back at
\* its place: stenos_decompress_generic never returns a partial output.
SuccessIsComplete ==
  Decompressed /\ result.error = "none" /\ Readable(frame) =>
    /\ \A r \in result.restored : r.to = r.from
    /\ \A r, s \in result.restored : r = s \/ r.to + r.len <= s.to \/ s.to + s.len <= r.to
    /\ frame.total > 0 =>
         /\ \A r \in result.restored :
              r.to = 0 \/ \E s \in result.restored : s.to < r.to /\ s.to + s.len = r.to
         /\ \E r \in result.restored : r.to + r.len = frame.total

\* A frame that lost bytes at its end is refused.
TruncatedIsRefused ==
  Decompressed /\ result.bytes < frame.size /\ frame.total > 0 /\ Readable(frame) =>
    result.error # "none"

-----------------------------------------------------------------------------
\* What the documentation and the tests say, and the code does not do: every frame
\* gives its input back.  tests/tests_comp_decomp.cpp:134 asserts it of any input.
EveryRoundTrip ==
  Decompressed /\ Intact /\ result.error # "alloc" =>
    result.error = "none" /\ \A r \in result.restored : r.from = r.to
===============================================================================
