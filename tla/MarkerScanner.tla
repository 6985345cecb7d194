--------------------------- MODULE MarkerScanner ---------------------------
(***************************************************************************)
(* The bytes of the child's terminal carry koshell's own markers between   *)
(* what the user is to see: MarkerScanner::feed of shell_integration.rs,   *)
(* which takes them apart chunk by chunk.  A byte is a one-letter string,  *)
(* and a marker is the prefix, a payload and the terminator; a payload     *)
(* that parses is a single letter of Kinds, the kind of the marker.        *)
(***************************************************************************)
EXTENDS Naturals, Sequences, SequencesExt

CONSTANT MaxPending   \* MAX_PENDING_MARKER_BYTES
ASSUME MaxPendingAssumption == MaxPending \in Nat \ {0}

Prefix == <<"e", "o", "k">>     \* ESC ] 777 ; koshell ;
Terminator == "t"               \* BEL
Kinds == {"S", "C", "N"}        \* a command boundary, a cwd, a control request

\* parse_marker_payload: the marker of a payload, nothing when it is garbage.
Parsed(payload) ==
    IF Len(payload) = 1 /\ payload[1] \in Kinds THEN payload ELSE <<>>
Formatted(kind) == Prefix \o <<kind, Terminator>>   \* format_marker

\* The first position of needle in b, 0 when there is none.
Find(b, needle) ==
    LET at == {i \in 1..(Len(b) - Len(needle) + 1) :
                 SubSeq(b, i, i + Len(needle) - 1) = needle}
    IN IF at = {} THEN 0 ELSE CHOOSE i \in at : \A j \in at : i <= j

\* Deliberate fault: one length too few is tried.
PartialPrefixLen_Short(b) ==
    LET fits == {k \in 1..(Len(Prefix) - 2) : IsSuffix(SubSeq(Prefix, 1, k), b)}
    IN IF fits = {} THEN 0 ELSE CHOOSE k \in fits : \A j \in fits : j <= k

\* partial_prefix_len: the longest end of b that may be the start of a marker.
PartialPrefixLen(b) ==
    LET fits == {k \in 1..(Len(Prefix) - 1) : IsSuffix(SubSeq(Prefix, 1, k), b)}
    IN IF fits = {} THEN 0 ELSE CHOOSE k \in fits : \A j \in fits : j <= k

\* All of b but the end a marker may start with, which stays in the buffer.
AllButTail(b) ==
    LET keep == PartialPrefixLen(b)
    IN [out |-> SubSeq(b, 1, Len(b) - keep),
        buf |-> SubSeq(b, Len(b) - keep + 1, Len(b)), flushed |-> FALSE]

\* The loop of feed: out has the visible bytes and the markers in order.  A
\* marker that does not end stays in the buffer up to the cap.
RECURSIVE Scan(_, _)
Scan(b, cap) ==
    LET start == Find(b, Prefix)
        before == SubSeq(b, 1, start - 1)
        rest == SubSeq(b, start, Len(b))
        body == SubSeq(rest, Len(Prefix) + 1, Len(rest))
        end == Find(body, <<Terminator>>)
        after == Scan(SubSeq(body, end + 1, Len(body)), cap)
        flush == AllButTail(rest)
    IN CASE start = 0 -> AllButTail(b)
         [] start # 0 /\ end # 0 ->
              [after EXCEPT !.out = before \o Parsed(SubSeq(body, 1, end - 1)) \o @]
         [] start # 0 /\ end = 0 /\ Len(rest) <= cap ->
              [out |-> before, buf |-> rest, flushed |-> FALSE]
         [] OTHER -> [flush EXCEPT !.out = before \o @, !.flushed = TRUE]

\* feed: a chunk behind what earlier ones left.
Feed(buf, data) == Scan(buf \o data, MaxPending)

\* What the stream says, one byte after the other and with no cap: a byte is
\* shown once it can no longer belong to a marker.
Whole(stream) ==
    LET Byte(state, byte) ==
            LET held == Append(state.buf, byte)
                inside == IsPrefix(Prefix, held)
            IN IF inside /\ byte = Terminator /\ Len(held) > Len(Prefix)
               THEN [out |-> state.out \o
                               Parsed(SubSeq(held, Len(Prefix) + 1, Len(held) - 1)),
                     buf |-> <<>>]
               ELSE IF inside \/ IsPrefix(held, Prefix)
               THEN [state EXCEPT !.buf = held]
               ELSE IF byte = Prefix[1]
               THEN [out |-> state.out \o state.buf, buf |-> <<byte>>]
               ELSE [out |-> state.out \o held, buf |-> <<>>]
    IN FoldLeft(Byte, [out |-> <<>>, buf |-> <<>>], stream)

=============================================================================
