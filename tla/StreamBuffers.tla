---------------------------- MODULE StreamBuffers ----------------------------
(***************************************************************************)
(* Buffers with a stream behind them (io/StreamBuffer, io/ZeroCopy): input *)
(* and output buffers, their seekable forms, the buffer that does both,    *)
(* and the reader and writer whose buffer belongs to the stream.           *)
(*                                                                         *)
(* s is one buffer: kind its class, file and fpos the stream behind it     *)
(* (external), data the bytes from m_beg to m_end, pos and end the offsets *)
(* of m_pos and m_end, spos m_stream_pos, room how many bytes the stream   *)
(* will still take.  A result is a buffer, the bytes the caller got or the *)
(* buffer took, and how the call ended: "eof" and "full" are exceptions,   *)
(* "null" a copy through a null pointer.  The stream may give fewer bytes  *)
(* than it was asked for, so a read has a set of results.                  *)
(***************************************************************************)
EXTENDS Integers, Sequences, FiniteSets, SequencesExt

CONSTANTS
    Contents,    \* what an input stream may hold: sequences of bytes
    Capacities,  \* buffer sizes
    IoLens,      \* how many bytes a call reads or writes
    CR, LF,      \* the two bytes that end a line
    IoKinds,     \* the classes that are used
    FullKinds,   \* those whose stream may run out of room
    Rooms,       \* how many bytes such a stream takes
    BufAlign,    \* unit of set_bufsize (4096 bytes)
    MaxIoOps     \* bound: calls

ASSUME StreamAssumption ==
    /\ Capacities \subseteq Nat /\ IoLens \subseteq Nat \ {0} /\ MaxIoOps \in Nat
    /\ CR \in Nat /\ LF \in Nat /\ CR # LF

BufferKinds ==
    {"input", "seekin", "memread", "output", "seekout", "detached", "memory", "both", "zcread", "zcwrite"}
Readers == {"input", "seekin", "memread", "zcread"}
Seekables == {"seekin", "seekout", "both"}

ASSUME KindAssumption ==
    /\ IoKinds \subseteq BufferKinds /\ FullKinds \subseteq {"output", "seekout", "zcwrite"}
    /\ Rooms \subseteq Nat /\ BufAlign \in Nat \ {0}

VARIABLES
    s,         \* the buffer and its stream
    want,      \* what the stream should hold once the buffer is flushed
    at,        \* where the caller is in it
    reply,     \* what the last call gave and what it should have given
    refused,   \* whether a call has thrown for want of room
    ioOps      \* calls so far

ioVars == <<s, want, at, reply, refused, ioOps>>

Lesser(a, b) == IF a < b THEN a ELSE b
Greater(a, b) == IF a > b THEN a ELSE b
Cells(from, n) == [i \in 1..n |-> from]

AlignUp(n) == ((n + BufAlign - 1) \div BufAlign) * BufAlign

\* IOBufferBase::IOBufferBase and SeekableBufferBase; InputBuffer::setMemory makes the caller's memory the
\* buffer, OutputBuffer::setMemoryMode sets m_end and leaves m_beg NULL.
NewBuffer(kind, file, cap, room) ==
    [kind |-> kind, file |-> file, fpos |-> IF kind = "memread" THEN Len(file) ELSE 0,
     data |-> IF kind = "memread" THEN file ELSE <<>>, pos |-> 0,
     end |-> CASE kind = "memread" -> Len(file) [] kind = "memory" -> cap [] OTHER -> 0,
     cap |-> CASE kind = "memory" -> AlignUp(cap) [] kind = "memread" -> Len(file) [] OTHER -> cap,
     init |-> kind \in {"zcread", "zcwrite", "memread"},
     spos |-> 0, dirty |-> FALSE, prefetched |-> FALSE, room |-> room]
Result(b, bytes, ended) == [s |-> b, bytes |-> bytes, ended |-> ended]

\* What follows a call in the code is not reached when the call throws.
Then(r, Next(_)) == IF r.ended = "ok" THEN Next(r.s) ELSE r

Overwrite(file, from, bytes) ==
    [i \in 1..Greater(Len(file), from + Len(bytes)) |->
        IF i > from /\ i <= from + Len(bytes) THEN bytes[i - from] ELSE IF i <= Len(file) THEN file[i] ELSE 0]

\* The stream: read and write move its position.
Avail(b) == Greater(0, Len(b.file) - b.fpos)
Take(b, n) == SubSeq(b.file, b.fpos + 1, b.fpos + n)
Moved(b, n) == [b EXCEPT !.fpos = @ + n]
Written(b, bytes) ==
    [b EXCEPT !.file = Overwrite(b.file, b.fpos, bytes), !.fpos = @ + Len(bytes), !.room = @ - Len(bytes)]
Fitting(b, bytes) == SubSeq(bytes, 1, Lesser(Len(bytes), b.room))

\* SeekableBufferBase::update_pos; it does nothing in the other classes.
update_pos(b, n) == IF b.kind \in Seekables THEN [b EXCEPT !.spos = @ + n] ELSE b

\* read_min_max: the stream is asked until there are min bytes or it ends.
read_min_max(b, min, max) ==
    IF min = 0 THEN {0} ELSE Lesser(min, Avail(b))..Lesser(max, Avail(b))

initbuf(b) == IF b.init THEN b ELSE [b EXCEPT !.init = TRUE, !.data = <<>>, !.pos = 0, !.end = 0]
\* set_bufsize: before initbuf only the size is noted.
set_bufsize(b, size) ==
    LET new == AlignUp(size) IN
    IF ~b.init THEN [b EXCEPT !.cap = new]
    ELSE IF new <= b.cap THEN b
    ELSE [b EXCEPT !.cap = new, !.data = Overwrite(Cells(0, new), 0, SubSeq(b.data, 1, b.end))]
Held(b) == SubSeq(b.data, b.pos + 1, b.end)

----------------------------------------------------------------------------
(* Reading *)

\* InputBuffer::do_fill_and_read: what is held, then the stream; a long read goes past the buffer.
input_fill(b0, length) ==
    LET b == initbuf(b0)
        n1 == b.end - b.pos
        n2 == length - n1
        empty == [b EXCEPT !.data = <<>>, !.pos = 0, !.end = 0]
    IN  IF b0.kind = "memread" THEN {Result(b0, <<>>, "eof")}
        ELSE IF b0.cap = 0 /\ ~b0.init
        THEN {IF n = 0 THEN Result(b0, <<>>, "eof") ELSE Result(Moved(b0, n), Take(b0, n), "ok") :
                 n \in read_min_max(b0, length, length)}
        ELSE IF n2 >= b.cap
        THEN {IF n = 0 THEN Result(empty, <<>>, "eof")
              ELSE Result(update_pos(Moved(empty, n), n), Held(b) \o Take(b, n), "ok") : n \in read_min_max(b, n2, n2)}
        ELSE {IF n = 0 THEN Result(b, <<>>, "eof")
              ELSE LET m == Lesser(n, n2) IN
                   Result(update_pos([Moved(b, n) EXCEPT !.data = Take(b, n), !.end = n, !.pos = m], n),
                          Held(b) \o SubSeq(Take(b, n), 1, m), "ok") : n \in read_min_max(b, n2, b.cap)}

\* ZcReader::do_fill_and_read: the stream lends what it has, as often as it takes.
zc_fill(b, length) ==
    LET lend(c, n) == [Moved(c, n) EXCEPT !.data = Take(c, n), !.end = n, !.pos = 0]
        step(r) ==
            LET need == length - Len(r.bytes) IN
            IF need = 0 \/ r.ended # "more" THEN {[r EXCEPT !.ended = IF @ = "more" THEN "ok" ELSE @]}
            ELSE IF Avail(r.s) = 0
            THEN {IF Len(r.bytes) = 0 THEN Result(r.s, <<>>, "eof")
                  ELSE Result([r.s EXCEPT !.data = <<>>, !.pos = 0, !.end = 0], r.bytes, "ok")}
            ELSE {LET m == Lesser(n, need) IN
                  Result([lend(r.s, n) EXCEPT !.pos = m], r.bytes \o SubSeq(Take(r.s, n), 1, m), "more") :
                     n \in 1..Avail(r.s)}
        rounds[k \in 0..(length + 1)] ==
            IF k = 0 THEN {Result([b EXCEPT !.pos = b.end], Held(b), "more")}
            ELSE UNION {step(r) : r \in rounds[k - 1]}
    IN  rounds[length + 1]

\* Mutant of OutputBufferBase::flush_buffer: how much the stream took is not looked at.
flush_out_NoCheck(b) ==
    IF ~b.init THEN Result(b, <<>>, "ok")
    ELSE IF b.kind = "detached" THEN Result(b, <<>>, "full")
    ELSE LET taken == Fitting(b, SubSeq(b.data, 1, b.pos))
             w == update_pos(Written(b, taken), Len(taken))
         IN  Result([w EXCEPT !.pos = 0, !.end = b.cap, !.data = Cells(0, b.cap)], <<>>, "ok")

\* OutputBufferBase::flush_buffer: when the stream takes less than it is given the buffer stays as it is.
flush_out(b) ==
    IF ~b.init THEN Result(b, <<>>, "ok")
    ELSE IF b.kind = "detached" THEN Result(b, <<>>, "full")
    ELSE LET taken == Fitting(b, SubSeq(b.data, 1, b.pos))
             w == update_pos(Written(b, taken), Len(taken))
         IN  IF Len(taken) # b.pos THEN Result(w, <<>>, "full")
             ELSE Result([w EXCEPT !.pos = 0, !.end = b.cap, !.data = Cells(0, b.cap)], <<>>, "ok")

\* SeekableBuffer::flush_buffer and invalidate_buffer.
flush_both(b) ==
    IF ~b.dirty THEN Result(b, <<>>, "ok")
    ELSE Then(flush_out(b), LAMBDA f : Result([f EXCEPT !.prefetched = FALSE, !.dirty = FALSE], <<>>, "ok"))
flush_buffer(b) == IF b.kind = "both" THEN flush_both(b) ELSE flush_out(b)
Emptied(b) == [b EXCEPT !.pos = 0, !.end = 0, !.data = <<>>]
invalidate_buffer(b) ==
    CASE b.kind = "seekin" -> Result(b, <<>>, "ok")
      [] b.kind = "seekout" -> flush_out(b)
      [] OTHER -> Then(flush_both(b), LAMBDA f : Result(Emptied(f), <<>>, "ok"))

\* do_fill_and_read of each class.
do_fill_and_read(b, length) ==
    CASE b.kind = "both" ->
            LET i == invalidate_buffer(b) IN
            IF i.ended # "ok" THEN {i}
            ELSE {[r EXCEPT !.s.prefetched = IF r.ended = "ok" THEN TRUE ELSE @] : r \in input_fill(i.s, length)}
      [] b.kind = "zcread" -> zc_fill(b, length)
      [] OTHER -> input_fill(b, length)

\* read; SeekableBuffer looks at m_prefetched too.
read(b, length) ==
    IF b.pos + length <= b.end /\ (b.kind = "both" => b.prefetched)
    THEN {Result([b EXCEPT !.pos = @ + length], SubSeq(b.data, b.pos + 1, b.pos + length), "ok")}
    ELSE do_fill_and_read(b, length)

\* ensureRead and fill_and_ensureRead.
ensureRead(b, length) ==
    {[r EXCEPT !.ended = IF Len(r.bytes) # length THEN "eof" ELSE @] : r \in read(b, length)}

\* readByte, and getByte, which throws at the end as readByte does.
readByte(b) == read(b, 1)

\* eof and test_eof: the byte that was read is pushed back.
test_eof(b) ==
    IF b.pos < b.end THEN {Result(b, <<>>, "ok")}
    ELSE IF b.kind = "memread" THEN {Result(b, <<>>, "eof")}
    ELSE {IF r.ended = "ok" THEN Result([r.s EXCEPT !.pos = 0], <<>>, "ok") ELSE r : r \in do_fill_and_read(b, 1)}

\* getline: up to the end of the line, which is CR LF, CR or LF; behind CR a byte is read to see, and where
\* there is none InputBuffer throws.  Without a stream read_min_max throws.
RECURSIVE line_from(_, _, _)
line_from(b, line, maxlen) ==
    IF Len(line) = maxlen THEN {Result(b, line, "ok")}
    ELSE IF b.pos = b.end /\ b.kind = "memread" THEN {Result(b, line, "eof")}
    ELSE IF b.pos = b.end
    THEN UNION {IF n = 0 THEN {IF line = <<>> THEN Result(b, <<>>, "eof") ELSE Result(Emptied(b), line, "ok")}
                ELSE line_from(update_pos([Moved(b, n) EXCEPT !.data = Take(b, n), !.end = n, !.pos = 0], n), line, maxlen) :
                   n \in IF b.kind = "zcread" THEN Lesser(1, Avail(b))..Avail(b) ELSE read_min_max(b, 1, b.cap)}
    ELSE LET c == b.data[b.pos + 1]
             next == [b EXCEPT !.pos = @ + 1]
         IN  IF c = LF THEN {Result(next, line, "ok")}
             ELSE IF c = CR
             THEN {IF r.ended # "ok" THEN Result(r.s, line, IF b.kind = "zcread" THEN "ok" ELSE "eof")
                   ELSE IF r.bytes[1] = LF THEN Result(r.s, line, "ok")
                   ELSE Result([r.s EXCEPT !.pos = @ - 1], line, "ok") : r \in readByte(next)}
             ELSE line_from(next, Append(line, c), maxlen)
getline(b, maxlen) == line_from(initbuf(b), <<>>, maxlen)

----------------------------------------------------------------------------
(* Writing *)

Refilled(b, bytes) == [b EXCEPT !.data = Overwrite(b.data, b.pos, bytes), !.pos = @ + Len(bytes)]

\* A copy into the buffer; before initbuf it has no memory.
CopyIn(b, bytes) == IF b.init THEN Result(Refilled(b, bytes), bytes, "ok") ELSE Result(b, <<>>, "null")

\* OutputBufferBase::do_flush_and_write: in memory mode the buffer grows; a long write goes past the buffer
\* and says how much the stream took; of a short one what fits is in the buffer when the flush throws.
output_flush(b0, bytes) ==
    CASE b0.kind = "memory" ->
            LET e == set_bufsize(b0, Greater(b0.pos + Len(bytes), (b0.cap * 103) \div 64)) IN
            CopyIn([e EXCEPT !.end = e.cap], bytes)
      [] b0.kind = "detached" -> Result(b0, <<>>, "full")
      [] b0.kind \notin {"memory", "detached"} /\ Len(bytes) >= b0.cap ->
            Then(flush_buffer(b0),
                 LAMBDA f : LET taken == Fitting(f, bytes) IN
                            IF taken = <<>> THEN Result(f, <<>>, "full")
                            ELSE Result(update_pos(Written(f, taken), Len(taken)), taken, "ok"))
      [] OTHER ->
            LET b == initbuf(b0)
                n == b.end - b.pos
            IN  Then(flush_buffer(Refilled(b, SubSeq(bytes, 1, n))),
                     LAMBDA f : Result(Refilled(f, SubSeq(bytes, n + 1, Len(bytes))), bytes, "ok"))

\* ZcWriter::do_flush_and_write: the stream lends room, as often as it takes.  Asking again gives back what
\* was lent, all of it written; when nothing is lent m_beg is lost with m_pos and m_end as they were.
zc_flush(b, bytes) ==
    LET n1 == Lesser(b.end - b.pos, Len(bytes))
        step(r) ==
            LET need == Len(bytes) - Len(r.bytes)
                given == Written(r.s, r.s.data)
            IN  IF need = 0 \/ r.ended # "ok" THEN {r}
                ELSE IF given.room = 0 THEN {Result([given EXCEPT !.init = FALSE], r.bytes, "full")}
                ELSE {LET n3 == Lesser(need, lent) IN
                      Result([given EXCEPT !.data = SubSeq(bytes, Len(r.bytes) + 1, Len(r.bytes) + n3) \o Cells(0, lent - n3),
                                           !.pos = n3, !.end = lent],
                             SubSeq(bytes, 1, Len(r.bytes) + n3), "ok") :
                         lent \in 1..Lesser(Greater(need, b.cap), given.room)}
        rounds[k \in 0..Len(bytes)] ==
            IF k = 0 THEN {Result(Refilled(b, SubSeq(bytes, 1, n1)), SubSeq(bytes, 1, n1), "ok")}
            ELSE UNION {step(r) : r \in rounds[k - 1]}
    IN  rounds[Len(bytes)]

do_flush_and_write(b, bytes) ==
    CASE b.kind = "both" ->
            {Then(invalidate_buffer(b),
                  LAMBDA i : LET r == output_flush(i, bytes) IN
                             IF r.ended = "ok" THEN [r EXCEPT !.s.prefetched = FALSE, !.s.dirty = TRUE] ELSE r)}
      [] b.kind = "zcwrite" -> zc_flush(b, bytes)
      [] OTHER -> {output_flush(b, bytes)}

\* write and writeByte.
write(b0, bytes) ==
    LET b == IF b0.kind = "both" THEN [b0 EXCEPT !.dirty = TRUE] ELSE b0 IN
    IF b.pos + Len(bytes) <= b.end THEN {CopyIn(b, bytes)} ELSE do_flush_and_write(b, bytes)

\* ensureWrite and flush_and_ensureWrite: fewer bytes than asked for are an exception.
ensureWrite(b, bytes) == {[r EXCEPT !.ended = IF @ = "ok" /\ r.bytes # bytes THEN "full" ELSE @] : r \in write(b, bytes)}

\* flush: ZcWriter tells the stream how much of what it lent was written.
flush(b) ==
    IF b.kind # "zcwrite" THEN flush_buffer(b)
    ELSE IF b.init THEN Result([b EXCEPT !.file = Overwrite(@, b.fpos, SubSeq(b.data, 1, b.pos))], <<>>, "ok")
    ELSE Result(b, <<>>, "null")

----------------------------------------------------------------------------
(* Seeking *)

is_prefetched(b) == b.kind = "seekin" \/ (b.kind = "both" /\ b.prefetched)
InBuffer(b, pos) ==
    LET beg == IF is_prefetched(b) THEN b.spos - b.end ELSE b.spos IN
    b.end # 0 /\ beg <= pos /\ pos <= beg + b.end

\* The stream itself is moved and the buffer discarded.
SeekStream(b, Place(_)) ==
    Then(invalidate_buffer(b), LAMBDA i : Result(Emptied([i EXCEPT !.fpos = Place(i), !.spos = Place(i)]), <<>>, "ok"))

\* seek(pos): within the buffer m_pos is taken from m_stream_pos, which is the end of a prefetched one.
seek(b, pos) ==
    IF InBuffer(b, pos) THEN Result([b EXCEPT !.pos = pos - b.spos], <<>>, "ok") ELSE SeekStream(b, LAMBDA i : pos)

\* seek(offset, 1) and skip: beyond the buffer the stream moves from its own position.
skip(b, offset) ==
    LET beg == IF is_prefetched(b) THEN b.spos - b.end ELSE b.spos
        new == beg + b.pos + offset
    IN  IF b.end = 0 THEN Result([b EXCEPT !.fpos = @ + offset, !.spos = b.fpos + offset], <<>>, "ok")
        ELSE IF beg <= new /\ new <= beg + b.end THEN Result([b EXCEPT !.pos = @ + offset], <<>>, "ok")
        ELSE SeekStream(b, LAMBDA i : i.fpos + offset)

\* seek(offset, 2).
seek_end(b, offset) ==
    IF b.end = 0 THEN Result([b EXCEPT !.fpos = Len(b.file) + offset, !.spos = Len(b.file) + offset], <<>>, "ok")
    ELSE seek(b, Len(b.file) + offset)

tell(b) ==
    IF b.end = 0 THEN b.fpos
    ELSE IF is_prefetched(b) THEN b.spos - (b.end - b.pos) ELSE b.spos + b.pos
stream_size(b) ==
    IF b.end = 0 \/ is_prefetched(b) THEN Len(b.file) ELSE Greater(b.spos + b.pos, Len(b.file))

----------------------------------------------------------------------------
NoReply == [got |-> <<>>, due |-> <<>>, early |-> FALSE, ended |-> "ok"]

\* Room that no run uses up.
Plenty == 100
StreamInit ==
    /\ \E kind \in IoKinds, c \in Capacities :
          \E file \in IF kind \in Readers \cup {"both"} THEN Contents ELSE {<<>>},
             room \in IF kind \in FullKinds THEN Rooms \cup {Plenty} ELSE {Plenty} :
             s = NewBuffer(kind, file, c, room) /\ want = file
    /\ at = 0 /\ reply = NoReply /\ refused = FALSE /\ ioOps = 0

Count == ioOps < MaxIoOps /\ ioOps' = ioOps + 1

\* What the caller has read is compared with what stands there, and where it was told of the end, by an
\* exception or by fewer bytes than it asked for, with where the end is.
Reads(results, length) ==
    /\ Count
    /\ \E r \in results :
          /\ s' = r.s /\ at' = at + Len(r.bytes)
          /\ reply' = [got |-> r.bytes, due |-> SubSeq(want, at + 1, at + Len(r.bytes)), ended |-> r.ended,
                       early |-> \/ r.ended = "eof" /\ at + length <= Len(want)
                                 \/ Len(r.bytes) \in 1..(length - 1) /\ at' < Len(want)]
    /\ UNCHANGED <<want, refused>>

\* A buffer for both is read where nothing unread is left in it, or within it.
Straddles(b, length) == b.kind = "both" /\ b.pos < b.end /\ ~(b.pos + length <= b.end /\ b.prefetched)
\* A read past the buffer that meets the end throws with the buffer emptied: what it held is gone.
LosesHeld(b, length) ==
    /\ b.kind \in {"input", "seekin"} /\ b.pos < b.end /\ Avail(b) = 0
    /\ length - (b.end - b.pos) >= b.cap /\ b.pos + length > b.end
Read(length) ==
    /\ s.kind \in Readers \cup {"both"} /\ ~Straddles(s, length) /\ ~LosesHeld(s, length)
    /\ Reads(read(s, length), length)
EnsureRead(length) ==
    /\ s.kind \in Readers /\ ~LosesHeld(s, length) /\ Reads(ensureRead(s, length), length)
TestEof ==
    /\ s.kind \in Readers /\ s.cap > 0 /\ Count
    /\ \E r \in test_eof(s) :
          s' = r.s /\ reply' = [NoReply EXCEPT !.got = <<r.ended = "ok">>, !.due = <<at < Len(want)>>]
    /\ UNCHANGED <<want, at, refused>>

\* The line that begins at a place, and where the next one begins.
LineEnd(from) ==
    LET ends == {i \in (from + 1)..Len(want) : want[i] \in {CR, LF}} IN
    IF ends = {} THEN Len(want) + 1 ELSE CHOOSE i \in ends : \A j \in ends : i <= j
NextLine(from) ==
    LET e == LineEnd(from) IN
    IF e > Len(want) THEN Len(want)
    ELSE IF want[e] = CR /\ e < Len(want) /\ want[e + 1] = LF THEN e + 1 ELSE e
\* Lines that getline reads and then throws: one that ends with a CR that is the last byte, and without a
\* stream a last line with no end.
ThrowsAway(kind) ==
    \/ kind \in {"input", "memread"} /\ LineEnd(at) = Len(want) /\ want[Len(want)] = CR
    \/ kind = "memread" /\ at < Len(want) /\ LineEnd(at) > Len(want)
Lines ==
    /\ s.kind \in {"input", "memread", "zcread"} /\ s.cap > 0 /\ Count
    /\ \E r \in getline(s, Len(want) + 1) :
          /\ s' = r.s /\ at' = NextLine(at)
          /\ reply' = [got |-> r.bytes, due |-> SubSeq(want, at + 1, LineEnd(at) - 1), ended |-> r.ended,
                       early |-> r.ended = "eof" /\ at < Len(want)]
    /\ UNCHANGED <<want, refused>>
GetLine == ~ThrowsAway(s.kind) /\ Lines

\* What the caller takes to be written: what the call said, and all of it where the call threw, for then it
\* says nothing of how much was taken.
Writes(results, bytes) ==
    /\ s.kind \notin Readers /\ Count
    /\ \E r \in results :
          LET put == IF r.ended = "ok" THEN r.bytes ELSE bytes IN
          /\ s' = r.s /\ want' = Overwrite(want, at, put) /\ at' = at + Len(put)
          /\ refused' = (refused \/ r.ended # "ok")
          /\ reply' = [NoReply EXCEPT !.ended = r.ended]
Payload(length) == [i \in 1..length |-> 10 + ioOps]

\* A buffer for both is written when it holds nothing that was read ahead.
Write(length) ==
    /\ s.kind = "both" => ~(s.prefetched /\ s.end > 0)
    /\ Writes(write(s, Payload(length)), Payload(length))
EnsureWrite(length) ==
    /\ s.kind = "both" => ~(s.prefetched /\ s.end > 0)
    /\ Writes(ensureWrite(s, Payload(length)), Payload(length))
Flush == Writes({flush(s)}, <<>>)

\* Seeks: to a place outside the buffer, or within what was read ahead by a distance.
Seeks(r, place) ==
    /\ Count /\ s' = r.s /\ at' = (IF r.ended = "ok" THEN place ELSE at)
    /\ refused' = (refused \/ r.ended # "ok") /\ reply' = [NoReply EXCEPT !.ended = r.ended] /\ UNCHANGED want
SeekTo(pos) ==
    s.kind \in Seekables /\ pos <= Len(want) /\ ~InBuffer(s, pos) /\ Seeks(seek(s, pos), pos)
Skip(offset) ==
    /\ s.kind = "seekin" /\ at + offset \in 0..Len(want)
    /\ s.end = 0 \/ InBuffer(s, at + offset)
    /\ Seeks(skip(s, offset), at + offset)
SeekEnd(offset) ==
    /\ s.kind = "seekin" /\ offset <= 0 /\ Len(want) + offset >= 0
    /\ s.end = 0 \/ ~InBuffer(s, Len(want) + offset)
    /\ Seeks(seek_end(s, offset), Len(want) + offset)

Distances == -2..2
StreamNext ==
    \/ \E n \in IoLens : Read(n) \/ EnsureRead(n) \/ Write(n) \/ EnsureWrite(n)
    \/ TestEof \/ GetLine \/ Flush
    \/ \E pos \in 0..4 : SeekTo(pos)
    \/ \E d \in Distances : Skip(d) \/ SeekEnd(d)

StreamSpec == StreamInit /\ [][StreamNext]_ioVars

\* The calls that go wrong: absolute seeks within a buffer, reads of a buffer for both that straddle its end,
\* reads that empty the buffer and meet the end, lines that are read and thrown away, and a second
\* flush once the stream that took a part of the buffer has room again.
SeekWithin(pos) ==
    s.kind \in Seekables /\ pos <= Len(want) /\ InBuffer(s, pos) /\ Seeks(seek(s, pos), pos)
ReadStraddling(length) == Straddles(s, length) /\ Reads(read(s, length), length)
ReadLosing(length) == LosesHeld(s, length) /\ Reads(read(s, length), length)
LineThrown == ThrowsAway(s.kind) /\ Lines
FlushAgain ==
    reply.ended = "full" /\ s.init /\ s.pos > 0 /\ Writes({flush([s EXCEPT !.room = s.pos])}, <<>>)

----------------------------------------------------------------------------
\* Whatever the buffer's size, the lengths asked for and what the stream gives or takes at a time: the bytes
\* a caller reads are those that stand where it is (StreamBuffer, ZeroCopy), it is told of the end only there;
\* what was written reaches the stream in its place once the buffer is flushed without an exception, and a
\* stream that ran out of room holds nothing but the first bytes of it; tell and size say where that is.
StreamRight ==
    /\ reply.got = reply.due /\ ~reply.early /\ reply.ended # "null"
    /\ s.kind \notin Readers =>
          LET f == flush(s) IN
          IF refused \/ f.ended # "ok" THEN IsPrefix(f.s.file, want) ELSE f.s.file = want
    /\ s.kind \in {"seekin", "seekout"} => tell(s) = at /\ stream_size(s) = Len(want)
=============================================================================
