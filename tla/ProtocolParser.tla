--------------------------- MODULE ProtocolParser ---------------------------
(***************************************************************************)
(* ProtocolParserManager and its parsers: ByHeadProtocolParser and those   *)
(* of the users, which are copies of it (examples/customprotocol).  Each   *)
(* keeps a buffer of its own.  parseByAll gives a piece of the stream to   *)
(* each of them in the order of their types; a parser that finds its type  *)
(* at the read position parses, one frame a step.                          *)
(***************************************************************************)
EXTENDS ByteBuffer

CONSTANTS
  Types,     \* the parsers 1..Types; a frame of type t is for parser t
  BigEndian, \* the byte order of the heads: PackEndian, big-endian unless told otherwise
  MaxGot     \* bound: models the parsers make

ASSUME ParserAssumption == Types \in Nat \ {0} /\ BigEndian \in BOOLEAN /\ MaxGot \in Nat

VARIABLES
  buffers,   \* m_buffer of each parser
  at,        \* the parser that is next, and whether it has sniffed
  got        \* models handed to signalParseOver, oldest first

parservars == <<buffers, at, got>>

\* type, seq, cmd and length; the body comes after them.
BodyOffset == 4

ParserInit ==
  /\ buffers = [p \in 1..Types |-> Cleared]
  /\ at = [parser |-> 1, parsing |-> FALSE]
  /\ got = <<>>
-----------------------------------------------------------------------------
\* The parser's cmd is a uint16_t, taken from the field before its bytes are swapped:
\* of a small number, big-endian, 0 is left.
Cmd(field) == IF BigEndian THEN 0 ELSE field

Model(p, b, body) ==
  [by |-> p, type |-> At(b, b.rpos), seq |-> At(b, b.rpos + 1),
   cmd |-> Cmd(At(b, b.rpos + 2)), body |-> body]

\* parseByAll goes to the next parser, or is through.
Through(p)    == p = Types
NextParser(p) == at' = [parser |-> IF Through(p) THEN 1 ELSE p + 1, parsing |-> FALSE]

\* A variant for mutation: the type of the frame is not looked at.
SniffAny(p, piece) ==
  /\ ~at.parsing /\ at.parser = p
  /\ buffers' = [buffers EXCEPT ![p] = Put(@, piece)]
  /\ at' = [at EXCEPT !.parsing = TRUE]
  /\ UNCHANGED got

\* sniff: the piece is kept whether or not it is for this parser.
Sniff(p, piece) ==
  LET b == Put(buffers[p], piece)
  IN  /\ ~at.parsing /\ at.parser = p
      /\ buffers' = [buffers EXCEPT ![p] = b]
      /\ IF At(b, b.rpos) = p THEN at' = [at EXCEPT !.parsing = TRUE] ELSE NextParser(p)
      /\ UNCHANGED got

\* A variant for mutation: the head is read before the size is looked at.
WaitReadsFirst(p) ==
  LET b == buffers[p]
  IN  /\ Size(b) < BodyOffset \/ Size(b) < BodyOffset + At(b, b.rpos + 3)
      /\ buffers' = [buffers EXCEPT ![p] = Skip(b, BodyOffset)]

\* parse returns: the vector is shorter than a head, or than the frame.  The
\* head of a frame that is not there yet has been read all the same.
Wait(p) ==
  LET b == buffers[p]
      h == Skip(b, BodyOffset)
  IN  \/ Size(b) < BodyOffset /\ buffers' = buffers
      \/ /\ Size(b) >= BodyOffset
         /\ Size(b) < BodyOffset + At(b, b.rpos + 3)
         /\ buffers' = [buffers EXCEPT ![p] = h]

\* A variant for mutation: what comes after the frame is thrown away.
DeliverClears(p) ==
  LET b   == buffers[p]
      len == At(b, b.rpos + 3)
      h   == Skip(b, BodyOffset)
  IN  /\ Size(b) >= BodyOffset + len
      /\ Len(got) < MaxGot
      /\ got' = Append(got, Model(p, b, Mid(h, len)))
      /\ buffers' = [buffers EXCEPT ![p] = Cleared]
      /\ NextParser(p)

\* parse calls back with a model, and goes on with what remains.
Deliver(p) ==
  LET b    == buffers[p]
      len  == At(b, b.rpos + 3)
      h    == Skip(b, BodyOffset)
      rest == Skip(h, MidLen(h, len))
  IN  /\ Size(b) >= BodyOffset + len
      /\ Len(got) < MaxGot
      /\ got' = Append(got, Model(p, b, Mid(h, len)))
      /\ buffers' = [buffers EXCEPT ![p] = IF NothingRemains(rest) THEN Cleared ELSE rest]
      /\ IF NothingRemains(rest) THEN NextParser(p) ELSE UNCHANGED at

Parse(p) ==
  /\ at.parsing /\ at.parser = p
  /\ \/ Wait(p) /\ NextParser(p) /\ UNCHANGED got
     \/ Deliver(p)
=============================================================================
