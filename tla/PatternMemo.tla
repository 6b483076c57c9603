------------------------------ MODULE PatternMemo ------------------------------
(***************************************************************************)
(* What the pattern cache of stdlib/regex.go promises to the regex::       *)
(* builtins: a call asks for a pattern and gets that pattern's compile     *)
(* result (a failure is a result too), and the cache holds the most        *)
(* recently used patterns, at most PatternCacheSize of them, most recent   *)
(* first.  One atomic step serves a call; how the map, the list and the    *)
(* mutex bring that about is RegexCache's business.                        *)
(***************************************************************************)
EXTENDS Integers, Sequences

CONSTANTS Callers, Patterns, ValidPatterns, PatternCacheSize, NoPattern

VARIABLES
    asked,     \* the pattern each caller waits for, NoPattern when it waits for none
    answer,    \* the last answer each caller was given
    recent     \* the cached patterns, most recently used first

memoVars == <<asked, answer, recent>>

Result(p) == IF p \in ValidPatterns THEN "compiled" ELSE "error"

\* The patterns in order of last use once p has been used: p first, wherever it
\* was, and the others as they were.
UsedNow(p, s) ==
    LET was == {i \in 1 .. Len(s) : s[i] = p}
        others == IF was = {} THEN s
                  ELSE LET i == CHOOSE i \in was : TRUE
                       IN  [k \in 1 .. Len(s) - 1 |-> IF k < i THEN s[k] ELSE s[k + 1]]
    IN  <<p>> \o others

Truncate(s) == SubSeq(s, 1, IF Len(s) > PatternCacheSize THEN PatternCacheSize ELSE Len(s))

MemoInit ==
    /\ asked = [c \in Callers |-> NoPattern]
    /\ answer = [c \in Callers |-> "none"]
    /\ recent = <<>>

Ask(c, p) ==
    /\ asked[c] = NoPattern
    /\ asked' = [asked EXCEPT ![c] = p]
    /\ answer' = [answer EXCEPT ![c] = "none"]
    /\ UNCHANGED recent

\* The linearization point: the pattern becomes the most recent one.
Use(c) ==
    /\ asked[c] # NoPattern
    /\ answer[c] = "none"
    /\ recent' = Truncate(UsedNow(asked[c], recent))
    /\ answer' = [answer EXCEPT ![c] = Result(asked[c])]
    /\ UNCHANGED asked

Return(c) ==
    /\ answer[c] # "none"
    /\ asked[c] # NoPattern
    /\ asked' = [asked EXCEPT ![c] = NoPattern]
    /\ UNCHANGED <<answer, recent>>

MemoNext == \E c \in Callers : (\E p \in Patterns : Ask(c, p)) \/ Use(c) \/ Return(c)

MemoSpec == MemoInit /\ [][MemoNext]_memoVars
================================================================================
