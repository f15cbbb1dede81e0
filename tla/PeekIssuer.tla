----------------------------- MODULE PeekIssuer -----------------------------
(***************************************************************************)
(* peek_issuer (src/src/cwt.rs): the byte walker that finds `iss` in a     *)
(* payload nobody has verified yet, so that a resolver can pick the key.   *)
(* PeekCursor is a position in the buffer; Fail is the position of a call  *)
(* that returned Err.                                                      *)
(***************************************************************************)
EXTENDS Integers, Sequences

CONSTANTS
    PeekMaxMapEntries,  \* PEEK_MAX_MAP_ENTRIES
    PeekMaxDepth        \* PEEK_MAX_DEPTH

ASSUME PeekConstants == PeekMaxMapEntries \in Nat /\ PeekMaxDepth \in Nat

Fail == 0

\* read_bytes: the position after n more bytes.
Past(buf, pos, n) == IF pos # Fail /\ pos + n - 1 <= Len(buf) THEN pos + n ELSE Fail

\* read_header: the byte at pos, split.
MajorType(buf, pos) == buf[pos] \div 32
AddlInfo(buf, pos) == buf[pos] % 32

\* How many bytes follow a header to hold its argument.
ArgWidth(ai) == CASE ai <= 23 -> 0 [] ai = 24 -> 1 [] ai = 25 -> 2 [] ai = 26 -> 4
                  [] ai = 27 -> 8 [] OTHER -> -1

RECURSIVE BigEndian(_)
BigEndian(bytes) ==
    IF bytes = <<>> THEN 0
    ELSE 256 * BigEndian(SubSeq(bytes, 1, Len(bytes) - 1)) + bytes[Len(bytes)]

\* length_from_ai: the argument, and the position after it.
Argument(buf, pos, ai) ==
    LET end == IF ArgWidth(ai) < 0 THEN Fail ELSE Past(buf, pos, ArgWidth(ai))
    IN  [pos |-> end,
         n |-> IF end = Fail THEN 0
               ELSE IF ai <= 23 THEN ai ELSE BigEndian(SubSeq(buf, pos, end - 1))]

\* peek_break.
AtBreak(buf, pos) == pos <= Len(buf) /\ buf[pos] = 255

\* skip_indefinite_string.
RECURSIVE SkipChunks(_, _)
SkipChunks(buf, pos) ==
    IF pos = Fail \/ pos > Len(buf) THEN Fail
    ELSE IF AtBreak(buf, pos) THEN pos + 1
    ELSE IF MajorType(buf, pos) \notin {2, 3} THEN Fail
    ELSE LET len == Argument(buf, pos + 1, AddlInfo(buf, pos))
         IN  SkipChunks(buf, Past(buf, len.pos, len.n))

RECURSIVE SkipItem(_, _, _), SkipBody(_, _, _, _, _)
RECURSIVE SkipItems(_, _, _, _), SkipToBreak(_, _, _, _)

\* The rest of an item at this depth whose header has been read; a map holds
\* two items per entry.
SkipBody(buf, pos, mt, ai, depth) ==
    LET per == IF mt = 5 THEN 2 ELSE 1
        len == Argument(buf, pos, ai)
    IN  CASE mt \in {0, 1} -> len.pos
          [] mt \in {2, 3} -> IF ai = 31 THEN SkipChunks(buf, pos) ELSE Past(buf, len.pos, len.n)
          [] mt \in {4, 5} -> IF depth + 1 > PeekMaxDepth THEN Fail
                              ELSE IF ai = 31 THEN SkipToBreak(buf, pos, per, depth + 1)
                              ELSE SkipItems(buf, len.pos, per * len.n, depth + 1)
          [] mt = 6 -> SkipItem(buf, len.pos, depth + 1)
          [] mt = 7 -> IF ai <= 23 THEN pos
                       ELSE IF ai > 27 THEN Fail ELSE Past(buf, pos, ArgWidth(ai))

\* skip_next_item_at_depth.
SkipItem(buf, pos, depth) ==
    IF pos = Fail \/ pos > Len(buf) \/ depth > PeekMaxDepth THEN Fail
    ELSE SkipBody(buf, pos + 1, MajorType(buf, pos), AddlInfo(buf, pos), depth)

\* skip_array_or_map of a definite and of an indefinite length.
SkipItems(buf, pos, left, depth) ==
    IF pos = Fail \/ left = 0 THEN pos
    ELSE SkipItems(buf, SkipItem(buf, pos, depth), left - 1, depth)

SkipToBreak(buf, pos, per, depth) ==
    IF pos = Fail \/ pos > Len(buf) THEN Fail
    ELSE IF AtBreak(buf, pos) THEN pos + 1
    ELSE SkipToBreak(buf, SkipItems(buf, pos, per, depth), per, depth)

\* skip_after_header: the rest of a top-level key. The item inside a tag starts
\* over at depth 0.
SkipKey(buf, pos, mt, ai) ==
    IF mt = 6 THEN SkipItem(buf, Argument(buf, pos, ai).pos, 0)
    ELSE SkipBody(buf, pos, mt, ai, 0)

PeekErr == [ok |-> FALSE, iss |-> {}]
PeekNone == [ok |-> TRUE, iss |-> {}]

\* The value of an `iss` entry.
PeekText(buf, pos) ==
    IF pos > Len(buf) \/ MajorType(buf, pos) # 3 THEN PeekErr
    ELSE LET len == Argument(buf, pos + 1, AddlInfo(buf, pos))
             end == Past(buf, len.pos, len.n)
         IN  IF end = Fail THEN PeekErr
             ELSE [ok |-> TRUE, iss |-> {SubSeq(buf, len.pos, end - 1)}]

\* The loop over the top-level entries, entry i next. For an unsigned label the
\* argument is read to compare it, and then read again by skip_after_header: a
\* label of 24 or more is followed by argument bytes, and the second read eats
\* into the entry's value.
RECURSIVE PeekEntries(_, _, _, _)
PeekEntries(buf, pos, i, max) ==
    IF i >= max THEN PeekNone
    ELSE IF pos > Len(buf) THEN PeekErr
    ELSE LET mt    == MajorType(buf, pos)
             ai    == AddlInfo(buf, pos)
             label == Argument(buf, pos + 1, ai)
         IN  IF mt = 0 /\ label.pos = Fail THEN PeekErr
             ELSE IF mt = 0 /\ label.n = 1 THEN PeekText(buf, label.pos)
             ELSE LET key  == SkipKey(buf, IF mt = 0 THEN label.pos ELSE pos + 1, mt, ai)
                      next == SkipItem(buf, key, 0)
                  IN  IF next = Fail THEN PeekErr
                      ELSE PeekEntries(buf, next, i + 1, max)

\* peek_issuer. An indefinite-length map counts as no entries, so the loop ends
\* at once.
PeekIss(buf) ==
    IF buf = <<>> \/ MajorType(buf, 1) # 5 THEN PeekErr
    ELSE LET ai  == AddlInfo(buf, 1)
             len == IF ai = 31 THEN [pos |-> 2, n |-> 0] ELSE Argument(buf, 2, ai)
         IN  IF len.pos = Fail THEN PeekErr
             ELSE PeekEntries(buf, len.pos, 0,
                              IF len.n <= PeekMaxMapEntries THEN len.n ELSE PeekMaxMapEntries)
=============================================================================
