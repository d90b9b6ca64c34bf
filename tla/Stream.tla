-------------------------------- MODULE Stream --------------------------------
(***************************************************************************)
(* One stream of core/stream.c: bytes go in at one end and come out, in      *)
(* order, at the other, through a buffer that grows (memory streams) or that *)
(* is filled from and flushed to a file.                                     *)
(*                                                                         *)
(* The operators work on the struct (a record), since a call of the reader    *)
(* may read and un-read several times; the actions are the calls.  A byte     *)
(* is one character: the encoding of characters and numbers is left out, and *)
(* so are sockets.  stdin is FROMSTDIN; stdout and stderr are TOFILE.        *)
(***************************************************************************)
EXTENDS Naturals, Sequences, SequencesExt

CONSTANTS
  Chars,                   (* the characters that texts are made of          *)
  Texts,                   (* for each kind of input, what may be in it      *)
  Chunks, MaxText,         (* what is written at a time, bound on the total  *)
  Reads,                   (* how much is read at a time                    *)
  Packets,                 (* what one read of the channel gives at most     *)
  MEM_CACHE, DISK_CACHE, RESTORE_CACHE, Sizes, (* the sizes of the buffers   *)
  MaxRestored              (* bound: what is un-read where nothing can be     *)
                           (* read any more                                 *)

NUL == "nul"    (* the character 0, which no text contains                   *)
BOM == "bom"    (* U+FEFF                                                  *)
BAD == "bad"    (* a byte that is no character: read as UINT32_MAX          *)
NL == "newline"

VARIABLES
  stm,      (* the struct, with its channel, and whether it is still open     *)
  wrote,    (* history: the bytes that were put in                          *)
  got,      (* history: the bytes that came out, without those un-read; a 0  *)
            (* comes out when it was un-read at an end and more was written   *)
            (* behind it                                                     *)
  chars     (* history: the characters read, without those un-read, and with  *)
            (* the 0 that a read at the end counts as one                    *)

Text == Seq(Chars)
Codes == Chars \cup {NUL}    (* what a character that is read can be           *)

ASSUME StreamAssumption ==
  /\ NUL \notin Chars
  /\ \A type \in {"FROMMEMORY", "FROMFILE", "FROMSTDIN"} : Texts[type] \subseteq Text
  /\ Chunks \subseteq Text
  /\ Reads \cup Packets \cup Sizes \subseteq Nat /\ MaxRestored \in Nat
  /\ {MEM_CACHE, DISK_CACHE, RESTORE_CACHE} \subseteq Nat \ {0}

Types == {"TOMEMORY", "FROMMEMORY", "TOFILE", "FROMFILE", "FROMSTDIN"}
Open == stm.open
Least(a, b) == IF a < b THEN a ELSE b

-----------------------------------------------------------------------------
(* Buffers: data up to woffset, roffset, and the size that is allocated.      *)

Buffer(size) == [data |-> <<>>, roffset |-> 0, size |-> size]
Unread(b) == SubSeq(b.data, b.roffset + 1, Len(b.data))
Consumed(b, n) == [b EXCEPT !.roffset = @ + n]

(* Mutant: the size is doubled only once. *)
DoubledOnce(size, needed) == size

Doubled(size, needed) ==
  LET double[k \in 0 .. needed] ==
        IF k = 0 THEN size
        ELSE IF double[k - 1] >= needed THEN double[k - 1] ELSE 2 * double[k - 1]
  IN double[needed]

(* Mutant: the data is moved from the start of the buffer. *)
MovedKept(b) == SubSeq(b.data, 1, Len(b.data) - b.roffset)

Moved(b) == Unread(b)

(* i_grow_buffer: what was not read moves to the front, of a larger buffer     *)
(* if it does not fit with n more bytes.                                     *)
Grown(b, n, grow_size) ==
  LET needed == Len(Unread(b)) + n IN
  [data |-> Moved(b), roffset |-> 0,
   size |-> IF needed <= b.size THEN b.size
            ELSE Doubled(IF b.size > 0 THEN 2 * b.size ELSE grow_size, needed)]

Appended(b, bytes, grow_size) ==
  LET room == IF Len(b.data) + Len(bytes) > b.size THEN Grown(b, Len(bytes), grow_size) ELSE b
  IN [room EXCEPT !.data = @ \o bytes]

-----------------------------------------------------------------------------
(* Creation, and the file: what is still to be read, what has been written,   *)
(* and what one read gives at most (0 when it fails).                        *)

Created(type, buf, rest, packet) ==
  [open |-> TRUE, type |-> type, buf |-> buf, restore |-> Buffer(0),
   end |-> FALSE, corrupt |-> FALSE, broken |-> FALSE, col |-> 1, row |-> 1,
   rest |-> rest, sink |-> <<>>, packet |-> packet]

(* stm_memory (i_next_pow2 of the size), stm_from_block, stm_to_file,         *)
(* stm_from_file, i_stdin.                                                   *)
Init ==
  /\ got = <<>> /\ chars = <<>>
  /\ \/ /\ \E size \in Sizes : stm = Created("TOMEMORY", Buffer(size), <<>>, 0)
        /\ wrote = <<>>
     \/ /\ stm = Created("TOFILE", Buffer(DISK_CACHE), <<>>, 0)
        /\ wrote = <<>>
     \/ \E text \in Texts["FROMMEMORY"] :
          /\ text # <<>> /\ wrote = text
          /\ stm = Created("FROMMEMORY",
                           [data |-> text, roffset |-> 0, size |-> Len(text)], <<>>, 0)
     \/ \E type \in {"FROMFILE", "FROMSTDIN"}, packet \in Packets :
          \E text \in Texts[type] :
            wrote = text /\ stm = Created(type, Buffer(DISK_CACHE), text, packet)

(* The type of the struct.  A buffer holds at most what was allocated.        *)
BufferOf(S) ==
  {b \in [data : Seq(S), roffset : Nat, size : Nat] :
     b.roffset <= Len(b.data) /\ Len(b.data) <= b.size}

Streams ==
  [open : BOOLEAN, type : Types, buf : BufferOf(Chars), restore : BufferOf(Codes),
   end : BOOLEAN, corrupt : BOOLEAN, broken : BOOLEAN, col : Nat \ {0}, row : Nat \ {0},
   rest : Text, sink : Text, packet : Nat]

TypeOK == stm \in Streams /\ wrote \in Text /\ got \in Seq(Codes) /\ chars \in Seq(Codes)

-----------------------------------------------------------------------------
(* Reading                                                                  *)

ReadOK(s) == ~(s.end \/ s.corrupt \/ s.broken)

(* Mutant: stdin is at its end when it gives less than was asked. *)
AtEndShort(s, n) == n < s.buf.size

AtEnd(s, n) == n = 0

(* i_FUNC_FILL, called with an empty buffer.  At its end bfile_read fails     *)
(* where bstd_read gives no byte: a file is broken there, and stdin ended.    *)
Fill(s, size) ==
  LET n == Least(Least(Len(s.rest), s.packet),
                 IF s.type = "FROMSTDIN" THEN Least(size, s.buf.size) ELSE s.buf.size)
      filled == [s EXCEPT !.buf = [@ EXCEPT !.data = SubSeq(s.rest, 1, n), !.roffset = 0],
                          !.rest = SubSeq(s.rest, n + 1, Len(s.rest))]
  IN CASE s.type \in {"TOMEMORY", "FROMMEMORY"} -> [s EXCEPT !.end = TRUE]
       [] s.type = "FROMFILE" -> [filled EXCEPT !.broken = n = 0]
       [] s.type = "FROMSTDIN" -> [filled EXCEPT !.broken = s.packet = 0,
                                                 !.end = AtEnd(s, n) /\ s.packet # 0]

(* A round of the loop of i_read, which fills an empty buffer.  One that gets  *)
(* nothing ends the loop; here it repeats itself.                            *)
Round(p) ==
  LET s == IF Unread(p.s.buf) = <<>> THEN Fill(p.s, p.left) ELSE p.s
      n == Least(p.left, Len(Unread(s.buf)))
  IN IF p.left = 0 THEN p
     ELSE [s |-> [s EXCEPT !.buf = Consumed(@, n)],
           data |-> p.data \o SubSeq(Unread(s.buf), 1, n), left |-> p.left - n]

(* The loop: at most size bytes from the buffer, behind data.                *)
Pull(s, data, size) ==
  LET round[k \in 0 .. size] ==
        IF k = 0 THEN [s |-> s, data |-> data, left |-> size] ELSE Round(round[k - 1])
  IN round[size]

(* i_read: the stream after it, and the bytes that it gave.                  *)
ReadBytes(s, size) ==
  LET u == Unread(s.restore)
      n == Least(size, Len(u))
      after == [s EXCEPT !.restore = Consumed(@, n)]
  IN IF ~ReadOK(s) THEN [s |-> s, data |-> <<>>]
     ELSE IF s.type = "TOFILE" THEN [s |-> [after EXCEPT !.corrupt = TRUE], data |-> <<>>]
     ELSE LET p == Pull(after, SubSeq(u, 1, n), size - n) IN [s |-> p.s, data |-> p.data]

(* stm_read_char: the position is advanced, also by the 0 read at the end.    *)
CharOf(r) == IF r.data = <<>> THEN NUL ELSE r.data[1]

Decoded(s, r) ==
  LET code == CharOf(r)
  IN [code |-> code, data |-> r.data, chars |-> IF ReadOK(s) THEN <<code>> ELSE <<>>,
      s |-> IF ~ReadOK(s) \/ code = BAD THEN r.s
            ELSE IF code = NL THEN [r.s EXCEPT !.row = @ + 1, !.col = 1]
            ELSE [r.s EXCEPT !.col = @ + 1]]

ReadChar(s) == Decoded(s, ReadBytes(s, 1))

(* unicode_to_char: a code that is no character has no bytes (its assertion   *)
(* does not stop a release build).                                           *)
Encoded(code) == IF code = BAD THEN <<>> ELSE <<code>>

(* Mutant: the position stays after the character. *)
RestoredAhead(s, code, col, row) ==
  [s EXCEPT !.restore = Appended(@, Encoded(code), RESTORE_CACHE)]

(* _stm_restore with the position before the character.                      *)
Restored(s, code, col, row) ==
  [s EXCEPT !.restore = Appended(@, Encoded(code), RESTORE_CACHE), !.col = col, !.row = row]

(* A round of the loop of stm_skip_bom.                                      *)
BomRound(p) ==
  LET r == ReadChar(p.s) IN
  IF r.code = BOM THEN [s |-> r.s, data |-> p.data \o r.data] ELSE p

(* stm_skip_bom: what is read behind the last mark is un-read, the 0 of an    *)
(* end too; a byte that is no character is lost.                             *)
PastBom(s) ==
  LET most == Len(s.restore.data) + Len(s.buf.data) + Len(s.rest)
      round[k \in 0 .. most] ==
        IF k = 0 THEN [s |-> s, data |-> <<>>] ELSE BomRound(round[k - 1])
      p == round[most]
      r == ReadChar(p.s)
  IN [s |-> Restored(r.s, r.code, p.s.col, p.s.row),
      data |-> p.data \o (IF r.code = BAD THEN <<BAD>> ELSE <<>>)]

-----------------------------------------------------------------------------
(* The calls                                                                *)

(* stm_read and stm_skip.                                                    *)
Read(size) ==
  /\ Open
  /\ LET r == ReadBytes(stm, size) IN stm' = r.s /\ got' = got \o r.data
  /\ UNCHANGED <<wrote, chars>>

(* stm_skip_bom, also of a stream that can only be written, or no more read.  *)
SkipBom ==
  /\ Open /\ (ReadOK(stm) \/ Len(Unread(stm.restore)) < MaxRestored)
  /\ LET r == PastBom(stm) IN
     stm' = r.s /\ got' = got \o r.data /\ chars' = chars \o r.data
  /\ UNCHANGED wrote

WriteOK == Open /\ ~stm.corrupt /\ ~stm.broken

(* i_write to memory: what was un-read stays before what is written.          *)
WriteMemory(bytes) ==
  /\ WriteOK /\ stm.type = "TOMEMORY"
  /\ Len(wrote) + Len(bytes) <= MaxText
  /\ stm' = [stm EXCEPT !.buf = Appended(@, bytes, MEM_CACHE), !.end = FALSE]
  /\ wrote' = wrote \o bytes
  /\ UNCHANGED <<got, chars>>

(* i_FUNC_WRITE: a file that takes less than all is broken.                   *)
ChannelWrite(s, bytes) ==
  {[s EXCEPT !.sink = @ \o SubSeq(bytes, 1, n), !.broken = @ \/ n < Len(bytes)] :
     n \in 0 .. Len(bytes)}

(* i_write to a file: what does not fit empties the buffer into the file, and *)
(* goes there itself when it never fits.                                     *)
WriteFile(bytes) ==
  /\ WriteOK /\ stm.type = "TOFILE" /\ Len(wrote) + Len(bytes) <= MaxText
  /\ IF Len(stm.buf.data) + Len(bytes) <= stm.buf.size
     THEN stm' = [stm EXCEPT !.buf.data = @ \o bytes, !.end = FALSE]
     ELSE \E flushed \in ChannelWrite(stm, stm.buf.data) :
            IF Len(bytes) <= stm.buf.size
            THEN stm' = [flushed EXCEPT !.buf.data = bytes, !.end = FALSE]
            ELSE \E direct \in ChannelWrite(flushed, bytes) :
                   stm' = [direct EXCEPT !.buf.data = <<>>, !.end = FALSE]
  /\ wrote' = wrote \o bytes
  /\ UNCHANGED <<got, chars>>

(* i_write to an input.                                                     *)
WriteInput ==
  /\ WriteOK /\ stm.type \notin {"TOMEMORY", "TOFILE"}
  /\ stm' = [stm EXCEPT !.corrupt = TRUE]
  /\ UNCHANGED <<wrote, got, chars>>

Flushed(s) ==
  IF s.type # "TOFILE" THEN {s}
  ELSE {[f EXCEPT !.buf.data = <<>>] : f \in ChannelWrite(s, s.buf.data)}

(* stm_flush.                                                               *)
Flush == Open /\ stm' \in Flushed(stm) /\ UNCHANGED <<wrote, got, chars>>

(* stm_close.                                                               *)
Close ==
  /\ Open
  /\ \E f \in Flushed(stm) :
       stm' = [f EXCEPT !.open = FALSE, !.buf = Buffer(0), !.restore = Buffer(0)]
  /\ UNCHANGED <<wrote, got, chars>>

(* stm_corrupt.                                                             *)
Corrupt == Open /\ stm' = [stm EXCEPT !.corrupt = TRUE] /\ UNCHANGED <<wrote, got, chars>>

(* The file can no more be read (environment).                               *)
ChannelFails ==
  /\ Open /\ stm.packet # 0
  /\ stm' = [stm EXCEPT !.packet = 0]
  /\ UNCHANGED <<wrote, got, chars>>

Next ==
  \/ \E size \in Reads : Read(size)
  \/ SkipBom
  \/ \E bytes \in Chunks : WriteMemory(bytes) \/ WriteFile(bytes)
  \/ WriteInput \/ Flush \/ Close \/ Corrupt \/ ChannelFails

-----------------------------------------------------------------------------
(* Properties                                                               *)

(* What was written of a sequence of bytes: not the 0s that were un-read.      *)
Written(bytes) ==
  LET upto[k \in 0 .. Len(bytes)] ==
        IF k = 0 THEN <<>>
        ELSE IF bytes[k] = NUL THEN upto[k - 1] ELSE Append(upto[k - 1], bytes[k])
  IN upto[Len(bytes)]

(* What is in an input: un-read first, then the buffer, then the file.         *)
Pending(s) == Written(Unread(s.restore)) \o Unread(s.buf) \o s.rest

(* No byte is lost, doubled or moved by the growing, filling, flushing and    *)
(* un-reading of buffers: of what came out, what went in is the first part,    *)
(* in its order, and what is still in is the rest.  A file that was not       *)
(* written in full is broken, and it is complete when it is closed.           *)
InOrder ==
  /\ stm.type # "TOFILE" /\ Open => Written(got) \o Pending(stm) = wrote
  /\ stm.type = "TOFILE" /\ ~stm.broken => stm.sink \o Unread(stm.buf) = wrote

(* A reader is told of the end only when nothing is left: IS_READ_OK keeps    *)
(* it from all that is still in the buffers.                                  *)
EndMeansEmpty ==
  Open /\ (stm.end \/ (stm.broken /\ stm.packet # 0)) => Pending(stm) = <<>>
=============================================================================
