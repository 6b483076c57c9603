--------------------------------- MODULE Texts ---------------------------------
(* What the parser makes of texts: of whole trees as Notation writes them, and of   *)
(* texts that grow a few tokens at a time, as an editor's do, each of which is parsed, with *)
(* whatever is wrong with it.                                                      *)
EXTENDS Notation

CONSTANTS Trees,     \* the expressions that are written
          Functions, \* the functions that are written
          Styles,
          Phrases,   \* the tokens that are typed at a time
          MaxTyped,  \* bound: the number of phrases typed
          Reads,         \* the parser, from tokens: ParseExpression of Parser
          ReadsFunction  \* and Parse

VARIABLES tokens,
          typed,  \* the number of phrases
          tree,   \* the tree the tokens were written from, or None
          layout, \* and the lines of its style
          parsed  \* its node, its errors and the place where the parser stopped

vars == <<tokens, typed, tree, layout, parsed>>

Outcome(r) == [node |-> r.node, errors |-> r.p.errors, next |-> r.p.pos]

Init ==
    /\ tokens = <<>>
    /\ typed = 0
    /\ tree = None
    /\ layout = "none"
    /\ parsed = Outcome(Reads[<<>>])

\* Nothing but the end of the text is wrong with it, and it is read to the end or nearly.
Unfinished ==
    /\ \A i \in DOMAIN parsed.errors : parsed.errors[i] > Len(tokens)
    /\ parsed.next >= Len(tokens) - 1

Enter(phrase) ==
    /\ tree = None
    /\ typed < MaxTyped
    /\ Unfinished
    /\ typed' = typed + 1
    /\ tokens' = tokens \o phrase
    /\ parsed' = Outcome(Reads[tokens'])
    /\ UNCHANGED <<tree, layout>>

WriteExpression(e, s) ==
    /\ tokens = <<>>
    /\ tree' = e
    /\ layout' = s.lines
    /\ tokens' = Scanned(Written(e, 0, s))
    /\ parsed' = Outcome(Reads[tokens'])
    /\ UNCHANGED typed

WriteFunction(fn, s) ==
    /\ tokens = <<>>
    /\ tree' = fn
    /\ layout' = s.lines
    /\ tokens' = Scanned(WrittenFunction(fn, s))
    /\ parsed' = Outcome(ReadsFunction[tokens'])
    /\ UNCHANGED typed

Next ==
    \/ \E phrase \in Phrases : Enter(phrase)
    \/ \E e \in Trees, s \in Styles : WriteExpression(e, s)
    \/ \E fn \in Functions, s \in Styles : WriteFunction(fn, s)

Spec == Init /\ [][Next]_vars

--------------------------------------------------------------------------------
(* Properties. *)

Accepted == parsed.errors = <<>>

\* A name, a colon, a name and :: are one name to the parser, also where the colon ends
\* the head of a for: for y in xs: m::f(y) on one line is not read.
HasPrefix ==
    \E i \in 1 .. Len(tokens) - 3 :
        \A j \in 1 .. 4 : tokens[i + j - 1][1] = <<"ident", ":", "ident", "::">>[j]

\* Every token is read, and none is an error.
ReadToTheEnd == Accepted /\ parsed.next = Len(tokens) + 1

\* A tree that is written with no more parentheses than the parser's levels ask for, in
\* every spelling and with line breaks inside brackets, after operators and in blocks, is
\* read back as it was, to the last token: grouping, the look-ahead of lambdas, and the
\* state that patterns leave behind.  Where the expression goes on in indented lines, as in
\* SPEC.md:124-129 and 161-165, the parser reports an error or stops before the end (in
\* silence: what follows is lost), or it reads what was written; but what it reads to the
\* end is never another tree, though the INDENT and DEDENT tokens of those lines are the same as
\* a block's.
ReadsWhatWasWritten ==
    tree # None /\ ~HasPrefix =>
        /\ layout # "indented" => ReadToTheEnd
        /\ ReadToTheEnd => parsed.node = tree

\* The tokens that say something the tree has to say: not the separators, nor what only
\* one of several spellings has.
Silent == {"(", ")", ",", "newline", "indent", "dedent", "null", "fn", "=="}
Said(ts) ==
    LET told == SelectSeq(ts, LAMBDA t : t[1] \notin Silent) IN
    [i \in DOMAIN told |->
        CASE told[i][1] = "and" -> Tok("&&")
          [] told[i][1] = "or" -> Tok("||")
          [] told[i][1] = "not" -> Tok("!")
          [] OTHER -> told[i]]

\* A typed text without an error: nothing that was read is missing from the tree, nothing
\* is in the tree that was not there, and all is in the order in which it was typed.  Only
\* what stands behind the expression is not read, and that is no error to the parser.
NothingLost ==
    tree = None /\ Accepted =>
        Said(SubSeq(tokens, 1, parsed.next - 1)) = Said(Written(parsed.node, 0, Plain))
================================================================================
