------------------------------ MODULE Streams ------------------------------
(***************************************************************************)
(* The streams that a compressed segment of a file passes through: the     *)
(* writer that deflates (gzip_stream.cc) into the file, and, on the way    *)
(* back, the reader of the segment, the one that inflates, and the buffer  *)
(* of xdr_istream (xdr.cc).  Each has a buffer of its own, asks the next   *)
(* one for as much as fits, and has to live with less.                     *)
(*                                                                         *)
(* A setting c has the sizes of the buffers, which of the writes and reads *)
(* of the file move one byte only, and what zlib is free to do.  What it   *)
(* compresses to is a header, the bytes themselves, and c.trailer bytes    *)
(* more: c.lag bytes may stay in zlib until it has to finish, and eager    *)
(* says whether it takes the trailer when there is no room for data.       *)
(***************************************************************************)
EXTENDS Integers, SequencesExt, FiniteSetsExt

Header == -1
Trailer == -2
Smaller(m, n) == IF m < n THEN m ELSE n
Upto(s, n) == SubSeq(s, 1, Smaller(n, Len(s)))
Beyond(s, n) == SubSeq(s, n + 1, Len(s))

\* positional_stream: how many of n bytes a call moves.
Moves(few, call, n) == IF call \in few THEN Smaller(1, n) ELSE n

-----------------------------------------------------------------------------
(* basic_gzip_compress_writer: what zlib keeps, the buffer out_, the bytes *)
(* in the file, and how often it was written.                              *)
NewWriter == [kept |-> <<Header>>, buf |-> << >>, file |-> << >>, calls |-> 0]

\* deflate moves what it can to the buffer, all but the last `lag` bytes.
Deflated(c, w, lag) ==
  LET n == Smaller(c.out - Len(w.buf), Len(w.kept) - lag)
  IN  IF n <= 0 THEN w
      ELSE [w EXCEPT !.buf = @ \o Upto(w.kept, n), !.kept = Beyond(@, n)]

\* A slip: what the file did not take is dropped.
ToSinkDropping(c, w) ==
  [w EXCEPT !.file = @ \o Upto(w.buf, Moves(c.fewWritten, w.calls, Len(w.buf))),
            !.buf = << >>, !.calls = @ + 1]
\* to_sink_: what the file does not take stays, at the front of the buffer.
ToSink(c, w) ==
  LET n == Moves(c.fewWritten, w.calls, Len(w.buf))
  IN  [w EXCEPT !.file = @ \o Upto(w.buf, n), !.buf = Beyond(@, n), !.calls = @ + 1]

\* write takes the input there is room for, and empties a full buffer.
Taken(c, w, input) == Upto(input, c.out - Len(w.buf) + c.lag - Len(w.kept))
Write(c, w, input) ==
  LET d == Deflated(c, [w EXCEPT !.kept = @ \o Taken(c, w, input)], c.lag)
  IN  IF Len(d.buf) = c.out THEN ToSink(c, d) ELSE d

\* encdec_writer::commit writes until all is taken.
RECURSIVE WriteAll(_, _, _)
WriteAll(c, w, input) ==
  IF input = << >> THEN w
  ELSE WriteAll(c, Write(c, w, input), Beyond(input, Len(Taken(c, w, input))))

\* close: the buffer goes to the file until zlib has finished, and once after.
RECURSIVE Finish(_, _)
Finish(c, w) ==
  LET d == Deflated(c, w, 0)
  IN  IF d.kept = << >> THEN ToSink(c, d) ELSE Finish(c, ToSink(c, d))
Close(c, w) == Finish(c, [w EXCEPT !.kept = @ \o [i \in 1 .. c.trailer |-> Trailer]])

\* Without compression the bytes are the file's.
Compressed(c, data) == IF c.gzip THEN Close(c, WriteAll(c, NewWriter, data))
                       ELSE [NewWriter EXCEPT !.file = data]

\* raw_file_segment_writer::close pads the bytes to a multiple of four and
\* appends their checksum, which stands for what it is taken of.
Padding(bytes) == [i \in 1 .. (-Len(bytes)) % 4 |-> 0]
Checksum(bytes) == bytes \o Padding(bytes)
Segment(bytes) == [bytes |-> bytes, padding |-> Padding(bytes), checksum |-> Checksum(bytes)]

-----------------------------------------------------------------------------
(* The reader: what is left of the segment and what its checksum is taken  *)
(* of, basic_gzip_decompress_reader's in_ and pending_, xdr_istream's      *)
(* buffer_, and what has been got.  `state` is "ok", or how it failed.     *)
NewReader(segment) ==
  [segment |-> segment, file |-> segment.bytes, crc32 |-> << >>, calls |-> 0, in |-> << >>, pending |-> << >>, stream_end |-> FALSE,
   buffer |-> << >>, got |-> << >>, chunk |-> << >>, state |-> "ok", framing |-> 0]

\* raw_file_segment_reader::read, into in_ (from_source_) or for the caller.
SegmentChunk(c, r, n) == Upto(r.file, Moves(c.fewRead, r.calls, n))
ReadSegment(c, r, n) ==
  [r EXCEPT !.file = Beyond(@, Len(SegmentChunk(c, r, n))),
            !.crc32 = @ \o SegmentChunk(c, r, n),
            !.calls = IF r.file = << >> THEN @ ELSE @ + 1]
FromSource(c, r) ==
  IF r.in # << >> THEN r
  ELSE [ReadSegment(c, r, c.inSize) EXCEPT !.in = SegmentChunk(c, r, c.inSize)]

\* How much inflate takes of its input when there is room for n bytes.
IsData(b) == b > 0
DataIn(s) == SelectSeq(s, IsData)
InflateFits(c, s, n) ==
  /\ Len(DataIn(s)) <= n
  /\ Len(DataIn(s)) = n => c.eager \/ Trailer \notin ToSet(s)
Inflatable(c, s, n) == Max({k \in 0 .. Len(s) : InflateFits(c, Upto(s, k), n)})

\* read_: inflate fails when it can do nothing, with Z_BUF_ERROR.
ZlibError(r) == [r EXCEPT !.state = "buffer error", !.chunk = << >>]
Inflate(c, r, k) ==
  LET s == Upto(r.in, k)
  IN  IF k = 0 THEN ZlibError(r)
      ELSE [r EXCEPT !.in = Beyond(@, k), !.chunk = DataIn(s),
                     !.framing = @ + Len(s) - Len(DataIn(s)),
                     !.stream_end = r.framing + Len(s) - Len(DataIn(s)) = c.trailer + 1]
InflateFilled(c, f, n) == Inflate(c, f, Inflatable(c, f.in, n))
ReadInflated(c, r, n) == InflateFilled(c, FromSource(c, r), n)

\* fill_pending_
ToPending(r) == [r EXCEPT !.pending = @ \o r.chunk, !.chunk = << >>]
FillPending(c, r) == ToPending(ReadInflated(c, r, c.pendingSize))

\* basic_gzip_decompress_reader::read: from pending_ when it holds something,
\* which it gets first when little is asked for.
FromPending(r, n) == [r EXCEPT !.chunk = Upto(r.pending, n), !.pending = Beyond(@, n)]
ReadGzip(c, r, n) ==
  CASE r.pending # << >> -> FromPending(r, n)
    [] r.pending = << >> /\ r.stream_end -> [r EXCEPT !.chunk = << >>]
    [] r.pending = << >> /\ ~r.stream_end /\ n >= c.pendingSize -> ReadInflated(c, r, n)
    [] OTHER -> FromPending(FillPending(c, r), n)

ReadNext(c, r, n) == IF c.gzip THEN ReadGzip(c, r, n)
                     ELSE [ReadSegment(c, r, n) EXCEPT !.chunk = SegmentChunk(c, r, n)]

\* at_end: tries to have something pending.
LookForEnd(c, r) ==
  IF c.gzip /\ r.pending = << >> /\ ~r.stream_end THEN FillPending(c, r) ELSE r
AtEnd(c, r) == IF c.gzip THEN r.pending = << >> /\ r.stream_end ELSE r.file = << >>

\* xdr_istream::get_raw_bytes_: first what is buffered, then small requests
\* fill the buffer and large ones pass it by.
FromBuffer(r, n) == [r EXCEPT !.got = @ \o Upto(r.buffer, n), !.buffer = Beyond(@, n)]
IfAtEnd(c, r) == IF r.state = "ok" /\ AtEnd(c, r) THEN [r EXCEPT !.state = "stream end"] ELSE r
EndIsReached(c, r) ==
  IF r.state = "ok" /\ r.chunk = << >> THEN IfAtEnd(c, LookForEnd(c, r)) ELSE r
PassThrough(r) == [r EXCEPT !.got = @ \o r.chunk]
ToBuffer(r) == [r EXCEPT !.buffer = r.chunk]
GetMore(c, r, n) ==
  IF n > c.minPassthrough THEN EndIsReached(c, PassThrough(ReadNext(c, r, n)))
  ELSE EndIsReached(c, ToBuffer(ReadNext(c, r, c.bufferSize)))
Lacks(r, want) == want - Len(r.got)
RECURSIVE GetRawBytes(_, _, _)
GetOn(c, r, want) ==
  IF Lacks(r, want) = 0 \/ r.state # "ok" THEN r
  ELSE GetRawBytes(c, GetMore(c, r, Lacks(r, want)), want)
GetRawBytes(c, r, want) == GetOn(c, FromBuffer(r, Lacks(r, want)), want)

\* Several requests, after which `total` bytes have been asked for.
Got(c, segment, totals) ==
  FoldLeft(LAMBDA r, total : IF r.state = "ok" THEN GetRawBytes(c, r, total) ELSE r,
           NewReader(segment), totals)

\* xdr_istream::at_end, asked of everything that was read.
XdrAtEnd(c, r) == r.buffer = << >> /\ AtEnd(c, LookForEnd(c, r))

\* close reads on until zlib has verified the trailer; then the segment has to
\* be used up, its padding zero, and its checksum that of what was read.
RECURSIVE Verify(_, _)
Verify(c, r) == IF ~c.gzip \/ r.stream_end \/ r.state # "ok" THEN r
                ELSE Verify(c, FillPending(c, [r EXCEPT !.pending = << >>]))
IsPadding(s) == \A i \in DOMAIN s : s[i] = 0
ChecksumOk(r) == r.segment.checksum = r.crc32 \o r.segment.padding
CloseSegment(r) ==
  CASE r.state = "ok" /\ r.file # << >> -> [r EXCEPT !.state = "data remaining"]
    [] r.state = "ok" /\ r.file = << >> /\ ~(IsPadding(r.segment.padding) /\ ChecksumOk(r)) ->
         [r EXCEPT !.state = "mismatch"]
    [] OTHER -> r
CloseReader(c, r) == CloseSegment(Verify(c, r))
=============================================================================
