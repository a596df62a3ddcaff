----------------------------- MODULE LikePattern -----------------------------
(***************************************************************************)
(* How a keyword becomes a pattern and what the pattern finds: the trim    *)
(* and escapeLikePattern of article.service.ts, and PostgreSQL's ILIKE     *)
(* '%' || keyword || '%' ESCAPE CHR(92).                                   *)
(*                                                                         *)
(* Abstractions.  Texts are sequences of a few characters.  The statement  *)
(* asks name, excerpt and description alike: `text' is any one of them.    *)
(***************************************************************************)
EXTENDS Naturals, SequencesExt

CONSTANTS
    Characters,     \* what may be typed
    MinLength, MaxLength,   \* of a keyword; MaxLength is a BOUND
    MaxText         \* BOUND: length of an article's text

LikeAssumption ==
    /\ {"a", "A", "%", "_", "\\", " "} \subseteq Characters
    /\ MinLength \in Nat /\ MaxLength \in Nat /\ MaxText \in Nat

VARIABLES
    text,           \* of the article
    keyword,        \* in the body of the request
    answer          \* "none" before the search; then "found" or "missed"

vars == <<text, keyword, answer>>

-----------------------------------------------------------------------------
(* The pattern.                                                            *)

Trim(s) ==
    LET ink == {i \in DOMAIN s : s[i] # " "}
    IN IF ink = {} THEN <<>> ELSE SubSeq(s, Min(ink), Max(ink))

Replace(s, special) ==
    LET done[n \in 0..Len(s)] ==
            IF n = 0 THEN <<>>
            ELSE done[n - 1] \o (IF s[n] \in special THEN <<"\\", s[n]>> ELSE <<s[n]>>)
    IN done[Len(s)]

(* Faulty form: the escape character itself is not escaped.                *)
EscapeWildcards(s) == Replace(s, {"%", "_"})

escapeLikePattern(s) == Replace(s, {"\\", "%", "_"})

Pattern(s) == <<"%">> \o escapeLikePattern(Trim(s)) \o <<"%">>

-----------------------------------------------------------------------------
(* The matching.                                                           *)

Fold(c) == IF c = "A" THEN "a" ELSE c

Literal(t, c, rest) == {i \in 1..Len(t) : Fold(t[i]) = Fold(c) /\ i + 1 \in rest}

(* from[j]: where the rest of the text matches the pattern from j on.      *)
Ilike(t, p) ==
    LET from[j \in 1..(Len(p) + 1)] ==
            IF j > Len(p) THEN {Len(t) + 1}
            ELSE LET next == from[j + 1] IN
                 CASE p[j] = "%" -> {i \in 1..(Len(t) + 1) : \E k \in next : i <= k}
                   [] p[j] = "_" -> {i \in 1..Len(t) : i + 1 \in next}
                   [] p[j] = "\\" /\ j < Len(p) -> Literal(t, p[j + 1], from[j + 2])
                   [] OTHER -> Literal(t, p[j], next)
    IN 1 \in from[1]

-----------------------------------------------------------------------------
Type(c) ==
    /\ answer = "none" /\ Len(keyword) < MaxLength
    /\ keyword' = Append(keyword, c)
    /\ UNCHANGED <<text, answer>>

(* The DTO's length is that of the keyword before the trim.                *)
Search ==
    /\ answer = "none" /\ Len(keyword) >= MinLength
    /\ answer' = IF Ilike(text, Pattern(keyword)) THEN "found" ELSE "missed"
    /\ UNCHANGED <<text, keyword>>

Init ==
    /\ text \in BoundedSeq(Characters, MaxText)
    /\ keyword = <<>> /\ answer = "none"

Next == (\E c \in Characters : Type(c)) \/ Search

Spec == Init /\ [][Next]_vars

-----------------------------------------------------------------------------
(* Without regard to case, w is somewhere in t as it is.                   *)
Appears(t, w) ==
    \E k \in 0..Len(t) : /\ k + Len(w) <= Len(t)
                         /\ \A i \in DOMAIN w : Fold(t[k + i]) = Fold(w[i])

(* A search finds an article exactly if its text contains the characters   *)
(* typed, wildcards and escape characters among them, blanks at the ends   *)
(* aside.                                                                  *)
FindsWhatWasTyped ==
    answer # "none" => (answer = "found" <=> Appears(text, Trim(keyword)))
=============================================================================
