------------------------------ MODULE GlobMatch ------------------------------
(***************************************************************************)
(* glob_match of crates/oaie-core/src/session.rs, which decides whether a  *)
(* session's tool filter allows a command: the loop over the parts of the  *)
(* pattern, checked against the meaning of `*`.  Patterns and texts are    *)
(* sequences of characters.                                                *)
(***************************************************************************)
EXTENDS Integers, Sequences, SequencesExt, FiniteSetsExt

CONSTANTS
    Chars,        \* characters other than the star
    Star,
    MaxPattern,   \* bound: length of the pattern
    MaxText       \* bound: length of the text

ASSUME GlobAssumption == MaxPattern \in Nat /\ MaxText \in Nat

VARIABLES
    pattern, text,
    cut,      \* the star before the part at hand; 0 for the first part
    pos,      \* characters of text consumed
    result    \* "none" until the function returns

vars == <<pattern, text, cut, pos, result>>

Answer(b) == IF b THEN "match" ELSE "mismatch"

\* pattern.split('*'): each part lies between a cut and the next.
Stars == {k \in DOMAIN pattern : pattern[k] = Star}
End == Len(pattern) + 1
Cuts == {0} \cup Stars
NextCut(c) == Min({k \in Stars \cup {End} : k > c})
Part(c) == SubSeq(pattern, c + 1, NextCut(c) - 1)

\* text[pos..].find(part), as the set of the offsets where part occurs.
Found(part) ==
    {k \in 0 .. Len(text) - pos - Len(part) :
        SubSeq(text, pos + k + 1, pos + k + Len(part)) = part}

Init ==
    /\ pattern \in BoundedSeq(Chars \cup {Star}, MaxPattern)
    /\ text \in BoundedSeq(Chars \cup {Star}, MaxText)
    /\ cut = 0
    /\ pos = 0
    /\ result = "none"

\* The two cases decided before the loop.
Shortcut ==
    /\ result = "none"
    /\ cut = 0
    /\ \/ pattern = <<Star>> /\ result' = "match"
       \/ Stars = {} /\ result' = Answer(pattern = text)
    /\ UNCHANGED <<pattern, text, cut, pos>>

InLoop == result = "none" /\ Stars # {} /\ pattern # <<Star>>

\* The part is found, the first one at the start of the text.
Fits(part) == Found(part) # {} /\ (cut = 0 => 0 \in Found(part))

\* Mutant: an empty part consumes the star.
MatchPart_Overrun ==
    /\ InLoop
    /\ cut # End
    /\ cut' = NextCut(cut)
    /\ LET part == Part(cut)
       IN  \/ part = <<>> /\ pos' = pos + 1 /\ UNCHANGED result
           \/ /\ part # <<>> /\ Fits(part)
              /\ pos' = pos + Min(Found(part)) + Len(part)
              /\ UNCHANGED result
           \/ /\ part # <<>> /\ ~Fits(part)
              /\ result' = "mismatch"
              /\ UNCHANGED pos
    /\ UNCHANGED <<pattern, text>>

\* One turn of the loop.
MatchPart ==
    /\ InLoop
    /\ cut # End
    /\ cut' = NextCut(cut)
    /\ LET part == Part(cut)
       IN  \/ part = <<>> /\ UNCHANGED <<pos, result>>
           \/ /\ part # <<>> /\ Fits(part)
              /\ pos' = pos + Min(Found(part)) + Len(part)
              /\ UNCHANGED result
           \/ /\ part # <<>> /\ ~Fits(part)
              /\ result' = "mismatch"
              /\ UNCHANGED pos
    /\ UNCHANGED <<pattern, text>>

\* Mutant: the first occurrence of the last part must be at the end.
AtEnd_FirstOccurrence ==
    /\ InLoop
    /\ cut = End
    /\ result' = Answer(Last(pattern) = Star \/ pos = Len(text))
    /\ UNCHANGED <<pattern, text, cut, pos>>

\* After the loop: the last part that is not empty must end the text, unless the
\* pattern ends with a star.
AtEnd ==
    /\ InLoop
    /\ cut = End
    /\ LET full == {c \in Cuts : Part(c) # <<>>}
       IN  result' = Answer(\/ Last(pattern) = Star
                            \/ full = {}
                            \/ IsSuffix(Part(Max(full)), text))
    /\ UNCHANGED <<pattern, text, cut, pos>>

Next == Shortcut \/ MatchPart \/ AtEnd

Spec == Init /\ [][Next]_vars

-----------------------------------------------------------------------------
(* The meaning of a pattern, by recursion on it.                           *)

\* Reach[k]: how many characters of the text the first k characters of the
\* pattern can stand for.  A star stands for any number of characters, any other
\* character for itself.
Reach[k \in 0 .. Len(pattern)] ==
    IF k = 0 THEN {0}
    ELSE LET before == Reach[k - 1]
         IN  IF pattern[k] = Star
             THEN {n \in 0 .. Len(text) : \E m \in before : m <= n}
             ELSE {n \in 1 .. Len(text) : n - 1 \in before /\ text[n] = pattern[k]}

Matches == Len(text) \in Reach[Len(pattern)]

\* glob_match says "match" exactly when the pattern, with each star standing for
\* any characters, is the text: taking the first occurrence of each part, and
\* only comparing the end of the text with the last one, loses no match and
\* invents none.
GlobMatchCorrect == result # "none" => result = Answer(Matches)

\* The slice text[pos..], which would panic past the end, is always in bounds.
SliceInBounds == pos \in 0 .. Len(text)
=============================================================================
