------------------------------ MODULE SqlDriver ------------------------------
(***************************************************************************)
(* sql_scanner and the part of sql_driver that it fills while the parser   *)
(* asks for tokens: the comments, the separators between groups of them,   *)
(* and the placeholder marks.  The document is a row of blanks, comments   *)
(* and tokens, each one position long; the scanner finds what is next.     *)
(* The parser asks for the comments around a token when it reduces a rule, *)
(* at any time after the token was scanned.                                *)
(***************************************************************************)
EXTENDS Naturals, Sequences

CONSTANTS
    DocumentSize,   \* document_->size()
    Keywords        \* the set function keywords that occur in documents

VARIABLES
    pc,             \* "scan" or "end"
    cursor,         \* sql_scanner::cursor_
    tokens,         \* the first positions of the tokens scanned so far
    comments,       \* comments_: where each begins, and if it is /** ... */
    separators,     \* comment_separators_
    saw,            \* saw_comments_
    last,           \* last_comment_separator_.begin, 0 when there is none
    marks,          \* placeholder_marks_
    functions       \* set functions: the keyword and the kind it became

ASSUME DocumentSizeAssumption == DocumentSize \in Nat

grouping == <<separators, saw, last>>
vars == <<pc, cursor, tokens, comments, grouping, marks, functions>>

Positions == 0..DocumentSize
Comment == [begin : Positions, description : BOOLEAN]
NoComment == 0

TypeOK ==
    /\ pc \in {"scan", "end"}
    /\ cursor \in Positions
    /\ tokens \in SUBSET Positions
    /\ comments \in Seq(Comment)
    /\ separators \in Seq(Positions)
    /\ saw \in BOOLEAN
    /\ last \in Positions
    /\ marks \in Seq(Positions)

Init ==
    /\ pc = "scan"
    /\ cursor = 0
    /\ tokens = {}
    /\ comments = <<>>
    /\ separators = <<>>
    /\ saw = FALSE
    /\ last = 0
    /\ marks = <<>>
    /\ functions = {}

-----------------------------------------------------------------------------
Back(s) == s[Len(s)]

(* A separator is entered unless it is the last one already.               *)
Separate(position) ==
    IF separators = <<>> \/ Back(separators) < position
    THEN Append(separators, position) ELSE separators

(* add_comment(): the first comment of a group enters the token before it. *)
AddComment(description) ==
    /\ comments' = Append(comments, [begin |-> cursor, description |-> description])
    /\ separators' = IF saw THEN separators ELSE Separate(last)
    /\ saw' = TRUE
    /\ last' = last

(* Mutant: only a token that ends a group of comments is remembered.       *)
AddSeparatorOfGroup(position) ==
    /\ separators' = IF saw THEN Separate(position) ELSE separators
    /\ last' = IF saw THEN position ELSE last
    /\ saw' = FALSE
    /\ tokens' = tokens \cup {position}

(* add_comment_separator(): a token ends the group of comments before it.  *)
AddSeparator(position) ==
    /\ separators' = IF saw THEN Separate(position) ELSE separators
    /\ last' = position
    /\ saw' = FALSE
    /\ tokens' = tokens \cup {position}

-----------------------------------------------------------------------------
InDocument == pc = "scan" /\ cursor < DocumentSize

Advance == cursor' = cursor + 1 /\ pc' = pc

Blank ==
    /\ InDocument
    /\ Advance
    /\ UNCHANGED <<tokens, comments, grouping, marks, functions>>

ScanComment ==
    /\ InDocument
    /\ \E description \in BOOLEAN : AddComment(description)
    /\ Advance
    /\ UNCHANGED <<tokens, marks, functions>>

Token ==
    /\ InDocument
    /\ AddSeparator(cursor)
    /\ Advance
    /\ UNCHANGED <<comments, marks, functions>>

QuestionMark ==
    /\ InDocument
    /\ marks' = Append(marks, cursor)
    /\ AddSeparator(cursor)
    /\ Advance
    /\ UNCHANGED <<comments, functions>>

(* The token a set function keyword is scanned as, and the kind of set     *)
(* function the grammar makes of a token.                                  *)
ScannedAs(keyword) ==
    CASE keyword = "BIT_AND" -> "BOOL_AND"
      [] keyword = "BIT_OR" -> "BOOL_OR"
      [] OTHER -> keyword

FunctionKind(token) ==
    CASE token = "BIT_AND" -> "bit_and"
      [] token = "BIT_OR" -> "bit_or"
      [] token = "BOOL_AND" -> "bool_and"
      [] token = "BOOL_OR" -> "bool_or"

SetFunction(keyword) ==
    /\ InDocument
    /\ functions' = functions \cup {<<keyword, FunctionKind(ScannedAs(keyword))>>}
    /\ AddSeparator(cursor)
    /\ Advance
    /\ UNCHANGED <<comments, marks>>

(* The end of the document, or a block comment that is not closed: the     *)
(* last token is empty, and the unclosed comment is not entered.           *)
EndOfFile ==
    /\ pc = "scan"
    /\ AddSeparator(DocumentSize)
    /\ cursor' = DocumentSize
    /\ pc' = "end"
    /\ UNCHANGED <<comments, marks, functions>>

Next ==
    \/ Blank
    \/ ScanComment
    \/ Token
    \/ QuestionMark
    \/ \E keyword \in Keywords : SetFunction(keyword)
    \/ EndOfFile

Spec == Init /\ [][Next]_vars

-----------------------------------------------------------------------------
(* std::lower_bound over an ascending vector, and whether the position it  *)
(* finds holds the key.                                                    *)
LowerBound(s, key) ==
    CHOOSE i \in 1..(Len(s) + 1) :
        /\ \A j \in 1..(i - 1) : s[j] < key
        /\ i <= Len(s) => key <= s[i]

Holds(s, key) == \E i \in DOMAIN s : s[i] = key

CommentsInRange(from, to) ==
    {k \in DOMAIN comments : from <= comments[k].begin /\ comments[k].begin <= to}

LeadingComments(token) ==
    LET i == LowerBound(separators, token) IN
    IF Holds(separators, token) /\ i > 1
    THEN CommentsInRange(separators[i - 1], token) ELSE {}

FollowingComments(token) ==
    LET i == LowerBound(separators, token) IN
    IF ~Holds(separators, token) THEN {}
    ELSE CommentsInRange(token, IF i = Len(separators) THEN DocumentSize
                                                       ELSE separators[i + 1])

(* The last of the leading comments that has the form of a description.    *)
LeadingDescription(token) ==
    LET described == {k \in LeadingComments(token) : comments[k].description} IN
    IF described = {} THEN NoComment
    ELSE CHOOSE k \in described : \A l \in described : l <= k

(* Mutant: the distance to the mark, counted from zero.                    *)
FindPlaceholderMarkFromZero(token) ==
    IF Holds(marks, token) THEN LowerBound(marks, token) - 1 ELSE 0

FindPlaceholderMark(token) ==
    IF Holds(marks, token) THEN LowerBound(marks, token) ELSE 0

-----------------------------------------------------------------------------
NoTokenWithin(a, b) == ~\E u \in tokens : a < u /\ u < b

(* Whenever the parser asks, and however many tokens it has looked ahead:  *)
(* the leading comments of a token are those between the token before it   *)
(* and itself.                                                             *)
LeadingExact ==
    \A t \in tokens :
        LeadingComments(t) =
            {k \in DOMAIN comments :
                comments[k].begin < t /\ NoTokenWithin(comments[k].begin, t)}

(* The following comments of a token are those before the next token.      *)
FollowingExact ==
    \A t \in tokens :
        FollowingComments(t) =
            {k \in DOMAIN comments :
                t < comments[k].begin /\ NoTokenWithin(t, comments[k].begin)}

(* No description becomes that of two definitions.                         *)
DescribesOne ==
    \A t, u \in tokens :
        LeadingDescription(t) = LeadingDescription(u) =>
            t = u \/ LeadingDescription(t) = NoComment

(* The few separators that are kept tell the comments of all tokens apart. *)
CommentsExact == TypeOK /\ LeadingExact /\ FollowingExact /\ DescribesOne

(* Each placeholder has the index of its mark in the document: none is     *)
(* taken for "unhandled placeholder mark", and no two have the same.       *)
PlaceholdersNumbered ==
    \A i \in DOMAIN marks : FindPlaceholderMark(marks[i]) = i

(* The grammar declares a token for the keyword BIT_AND, and makes bit_and *)
(* of it: what is written decides the set function.                        *)
FunctionsAsWritten ==
    \A f \in functions : f[2] = FunctionKind(f[1])

=============================================================================
