-------------------------------- MODULE Like --------------------------------
(***************************************************************************)
(* The matcher of LIKE patterns, likeCmpBytes in src/internal/gomdb/like.go.*)
(* A text and a pattern are sequences of characters.  The matcher is a     *)
(* loop: si and ri are its positions in text and pattern, star the         *)
(* position of the last % it passed (-1 before the first), starMatch where *)
(* the text that this % stands for ends.                                   *)
(***************************************************************************)
EXTENDS Integers, Sequences

\* The states of the loop: since the last %, it has read as much of the text as of the
\* pattern.
LoopStates(s, r) ==
    {st \in [si : 0..Len(s), ri : 0..Len(r), star : -1..(Len(r) - 1), starMatch : 0..Len(s)] :
        /\ st.star < st.ri
        /\ st.si - st.starMatch = st.ri - (st.star + 1)}

Start == [si |-> 0, ri |-> 0, star |-> -1, starMatch |-> 0]

\* The pattern goes on with the character of the text, or with one for any character.
Literal(s, r, st) == st.ri < Len(r) /\ r[st.ri + 1] \in {"_", s[st.si + 1]}

Wildcard(r, st) == st.ri < Len(r) /\ r[st.ri + 1] = "%"

\* The last % takes one character more.
Retry(st) ==
    [st EXCEPT !.starMatch = @ + 1, !.si = st.starMatch + 1, !.ri = st.star + 1]

Stuck(s, r, st) == ~Literal(s, r, st) /\ ~Wildcard(r, st) /\ st.star < 0

\* One round of the loop.
LikeStep(s, r, st) ==
    IF Literal(s, r, st) THEN [st EXCEPT !.si = @ + 1, !.ri = @ + 1]
    ELSE IF Wildcard(r, st)
         THEN [st EXCEPT !.star = st.ri, !.ri = @ + 1, !.starMatch = st.si]
         ELSE Retry(st)

\* Fault: a % at the end of the pattern has to stand for something.
NothingLeft(r, st) == st.ri = Len(r)

\* At the end of the text only % may be left of the pattern.
OnlyStarsLeft(r, st) == \A i \in st.ri + 1..Len(r) : r[i] = "%"

LikeCmp(s, r) ==
    LET matches[st \in LoopStates(s, r)] ==
            IF st.si = Len(s) THEN OnlyStarsLeft(r, st)
            ELSE ~Stuck(s, r, st) /\ matches[LikeStep(s, r, st)]
    IN  matches[Start]

\* The definition of LIKE: % stands for any characters, _ for one.  The rest of the pattern
\* matches the text from each of its starts on.
Like(s, r) ==
    LET starts[j \in 1..Len(r) + 1] ==
            IF j > Len(r) THEN {Len(s) + 1}
            ELSE IF r[j] = "%" THEN {i \in 1..Len(s) + 1 : \E k \in starts[j + 1] : i <= k}
            ELSE {i \in 1..Len(s) : r[j] \in {"_", s[i]} /\ i + 1 \in starts[j + 1]}
    IN  1 \in starts[1]
==============================================================================
