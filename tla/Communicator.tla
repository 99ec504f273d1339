---------------------------- MODULE Communicator ----------------------------
(***************************************************************************)
(* How an answer reaches the client: the plain text protocol and the MySQL *)
(* protocol, the buffered writer they share, its ring buffer, and a socket *)
(* that takes a few units at a time and may break.                         *)
(*                                                                         *)
(* A unit stands for the bytes of one thing on the wire: a packet header,  *)
(* a column name, a cell, a delimiter, a status.                           *)
(***************************************************************************)
EXTENDS Integers, Sequences, SequencesExt

CONSTANTS
  Capacity,   \* units that the ring buffer holds
  Sockets     \* [chunk, breaks]: units taken by one write, units until it breaks

ASSUME CapacityAssumption == Capacity \in Nat \ {0}

VARIABLE conn  \* the connection: communicator, writer, buffer and what the client has

NewConnection(protocol) ==
  [protocol |-> protocol, sequence_id |-> 0, need_disconnect |-> FALSE,
   buffer |-> [p \in 0..Capacity - 1 |-> "unused"], data_size |-> 0, write_pos |-> 0,
   socket |-> [chunk |-> 1, breaks |-> Capacity * 100], sent |-> <<>>]

Plain(c) == c.protocol = "plain"
Least(a, b) == IF a < b THEN a ELSE b

-----------------------------------------------------------------------------
(* RingBuffer *)

Remain(c) == Capacity - c.data_size
ReadPos(c) == (c.write_pos - c.data_size + Capacity) % Capacity

\* What can be read without going around the end.
Buffered(c) ==
  CASE c.data_size = 0 -> <<>>
    [] c.data_size > 0 ->
         LET end == IF ReadPos(c) < c.write_pos THEN c.write_pos ELSE Capacity
         IN [i \in 1..end - ReadPos(c) |-> c.buffer[ReadPos(c) + i - 1]]

Forward(c, n) == [c EXCEPT !.data_size = @ - n]

Stored(c, data, n) ==
  [c EXCEPT !.buffer = [p \in DOMAIN @ |-> IF p \in c.write_pos..c.write_pos + n - 1
                                           THEN data[p - c.write_pos + 1] ELSE @[p]],
            !.write_pos = (@ + n) % Capacity,
            !.data_size = @ + n]

Room(c) == IF ReadPos(c) <= c.write_pos THEN Capacity - c.write_pos ELSE ReadPos(c) - c.write_pos

\* The buffer, and what did not fit into it.
RECURSIVE RingWrite(_, _)
RingWrite(c, data) ==
  LET n == Least(Len(data), Room(c))
  IN IF data = <<>> \/ Remain(c) <= 0 THEN [c |-> c, rest |-> data]
     ELSE RingWrite(Stored(c, data, n), SubSeq(data, n + 1, Len(data)))

-----------------------------------------------------------------------------
(* BufferedWriter *)

Io(code, c) == [rc |-> code, c |-> c]

RECURSIVE FlushInternal(_, _)
FlushInternal(c, size) ==
  LET n == Least(Least(c.socket.chunk, Len(Buffered(c))), c.socket.breaks - Len(c.sent))
      written == [c EXCEPT !.sent = @ \o SubSeq(Buffered(c), 1, n)]
  IN CASE c.data_size = 0 \/ size <= 0 -> Io("SUCCESS", c)
       [] c.data_size > 0 /\ size > 0 ->
            IF n = 0 THEN Io("IOERR_WRITE", c) ELSE FlushInternal(Forward(written, n), size - n)

Flush(c) == FlushInternal(c, c.data_size)
Clean(c) == Forward(c, c.data_size)

RECURSIVE Writen(_, _)
WriteRest(part) == Writen(part.c, part.rest)
WriteFlushed(flushed, data) ==
  IF flushed.rc # "SUCCESS" THEN flushed ELSE WriteRest(RingWrite(flushed.c, data))
Writen(c, data) ==
  CASE data = <<>> -> Io("SUCCESS", c)
    [] data # <<>> -> WriteFlushed(IF Remain(c) = 0 THEN FlushInternal(c, Len(data)) ELSE Io("SUCCESS", c), data)

\* Piece after piece until one cannot be written; "done" counts the others.
WriteAll(c, pieces) ==
  LET step(acc, piece) ==
        LET w == Writen(acc.c, piece)
        IN IF acc.rc # "SUCCESS" THEN acc
           ELSE [rc |-> w.rc, c |-> w.c, done |-> IF w.rc = "SUCCESS" THEN acc.done + 1 ELSE acc.done]
  IN FoldLeft(step, [rc |-> "SUCCESS", c |-> c, done |-> 0], pieces)

-----------------------------------------------------------------------------
(* Units *)

Mark(u) == [u |-> u]
DELIM == Mark(" | ")
NEWLINE == Mark("newline")
END == Mark("0")
Name(i) == [u |-> "name", i |-> i]

\* Value::to_string: the type does not show; NULL is spelled out.
Text(v) == [u |-> "text", null |-> v.t = "NULLS", n |-> v.n, d |-> v.d]

SEQUENCE_IDS == 256
PacketHeader(id, payload) == [u |-> "header", sequence_id |-> id % SEQUENCE_IDS, payload_length |-> Len(payload)]

-----------------------------------------------------------------------------
(* MysqlCommunicator *)

HandshakeV10 == <<Mark("handshake")>>
OkPacket == <<Mark("ok")>>
EofPacket == <<Mark("eof")>>
ErrPacket == <<Mark("err")>>

SendPacket(c, payload) ==
  Writen([c EXCEPT !.sequence_id = (@ + 1) % SEQUENCE_IDS], <<PacketHeader(c.sequence_id, payload)>> \o payload)

SendPackets(c, payloads) ==
  FoldLeft(LAMBDA w, payload : IF w.rc = "SUCCESS" THEN SendPacket(w.c, payload) ELSE w, Io("SUCCESS", c), payloads)

\* Whether the packet that ends the definitions could be sent is not asked.
ColumnsSent(defs) == IF defs.rc = "SUCCESS" THEN Io("SUCCESS", SendPacket(defs.c, EofPacket).c) ELSE defs
SendColumnDefinition(c, cell_num) ==
  IF cell_num = 0 THEN Io("SUCCESS", c)
  ELSE ColumnsSent(SendPackets(c, <<<<[u |-> "count", i |-> cell_num]>>>> \o [i \in 1..cell_num |-> <<Name(i)>>]))

\* A cell that cannot be read ends the packet, not the loop.
GoodCells(cells) ==
  LET bad == SelectInSeq(cells, LAMBDA r : r.rc # "SUCCESS")
  IN IF bad = 0 THEN cells ELSE SubSeq(cells, 1, bad - 1)
Texts(cells) == [i \in DOMAIN GoodCells(cells) |-> Text(cells[i].v)]

SendLast(c, cell_num) == SendPacket(c, IF cell_num = 0 THEN OkPacket ELSE EofPacket)

-----------------------------------------------------------------------------
(* PlainCommunicator *)

Line(units) ==
  FlattenSeq([i \in DOMAIN units |-> IF i = 1 THEN <<<<units[i]>>>> ELSE <<<<DELIM>>, <<units[i]>>>>])

PlainHeader(c, cell_num) ==
  WriteAll(c, IF cell_num = 0 THEN <<>> ELSE Append(Line([i \in 1..cell_num |-> Name(i)]), <<NEWLINE>>))

\* A delimiter that cannot be written leaves the result open.
HeaderLeavesOpen(c, cell_num, header) == Plain(c) /\ header.done \in {2 * i - 1 : i \in 1..cell_num - 1}

-----------------------------------------------------------------------------
(* The calls that a statement makes *)

\* write_state: the plain protocol throws away what is still in the buffer.
PlainState(w) == [w.c EXCEPT !.need_disconnect = w.rc # "SUCCESS"]
WriteState(c, code) ==
  IF Plain(c) THEN PlainState(Writen(Clean(c), <<Mark(IF code = "SUCCESS" THEN "SUCCESS" ELSE "FAILURE")>>))
  ELSE Flush(SendPacket(c, IF code = "SUCCESS" THEN OkPacket ELSE ErrPacket).c).c

WriteHeader(c, cell_num) == IF Plain(c) THEN PlainHeader(c, cell_num) ELSE SendColumnDefinition(c, cell_num)

\* The rc is that of the writer: a cell's error is the caller's.
WriteRow(c, cells) ==
  LET line == Line(Texts(cells))
      bad == Len(GoodCells(cells)) < Len(cells)
  IN CASE Plain(c) /\ ~bad -> WriteAll(c, Append(line, <<NEWLINE>>))
       [] Plain(c) /\ bad -> WriteAll(c, IF line = <<>> THEN line ELSE Append(line, <<DELIM>>))
       [] ~Plain(c) -> SendPacket(c, Texts(cells))

\* The end of write_result.
Delimited(w) == IF w.rc = "SUCCESS" THEN Flush(w.c).c ELSE w.c
EndReply(c) == IF Plain(c) /\ ~c.need_disconnect THEN Delimited(Writen(c, <<END>>)) ELSE Flush(c).c
=============================================================================
