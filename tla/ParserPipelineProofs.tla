------------------------ MODULE ParserPipelineProofs ------------------------
(***************************************************************************)
(* Proofs about one call of sql_parser.  The separators that sql_driver    *)
(* keeps are enough to find the comments around every token of every       *)
(* document; the walk of the validator counts every node of every tree     *)
(* once, so that the parser keeps the promise of its options; and no class *)
(* of the tree forgets a member when it is copied or compared.             *)
(***************************************************************************)
EXTENDS ParserPipeline, FiniteSetTheorems, SequenceTheorems,
        WellFoundedInduction, TLAPS

(* A non-empty set of natural numbers has a least element.                 *)
LEMMA LeastNatural ==
    ASSUME NEW T \in SUBSET Nat, T # {}
    PROVE  \E m \in T : \A n \in T : m <= n
<1> DEFINE R == {ss \in Nat \X Nat : ss[1] < ss[2]}
<1>1. IsWellFoundedOn(R, Nat)
  BY NatLessThanWellFounded DEF OpToRel
<1>2. PICK m \in T : \A n \in T : ~(<<n, m>> \in R)
  <2> HIDE DEF R
  <2> QED BY <1>1, WFMin
<1>3. ASSUME NEW n \in T PROVE m <= n
  <2>1. <<n, m>> \in Nat \X Nat /\ <<n, m>>[1] = n /\ <<n, m>>[2] = m
    OBVIOUS
  <2>2. ~(n < m)
    BY <1>2, <2>1
  <2> QED BY <2>2
<1> QED BY <1>3

-----------------------------------------------------------------------------
(* The scanner and the driver.                                             *)
Separators == {separators[i] : i \in DOMAIN separators}
Begin(k) == comments[k].begin

Ascending(s) == \A i, j \in DOMAIN s : i < j => s[i] < s[j]

(* Where the scanner is: nothing starts at or behind the cursor, except    *)
(* the token that ends the document.                                       *)
Scanned ==
    /\ \A k \in DOMAIN comments : Begin(k) < cursor /\ Begin(k) \notin tokens
    /\ \A t \in tokens : t <= last /\ (pc = "scan" => t < cursor)
    /\ last \in tokens \cup {0}
    /\ pc = "scan" => last <= cursor /\ (saw => 0 < cursor)
    /\ \A i \in DOMAIN marks : pc = "scan" => marks[i] < cursor

(* The separators are tokens, or the start of the document.                *)
SeparatorsAreTokens ==
    /\ Ascending(separators)
    /\ Separators \subseteq tokens \cup {0}
    /\ saw => last \in Separators

(* A separator stands right before every group of comments, ...            *)
SeparatedBefore ==
    \A k \in DOMAIN comments : \E s \in Separators :
        s <= Begin(k) /\ \A t \in tokens : ~(s < t /\ t <= Begin(k))

(* ... one stands between a comment and every later token, and one after   *)
(* every comment of a group that a token has ended.                        *)
SeparatedAfter ==
    \A k \in DOMAIN comments :
        /\ \A t \in tokens : Begin(k) < t =>
               \E s \in Separators : Begin(k) < s /\ s <= t
        /\ ~saw => \E s \in Separators : Begin(k) < s

ScannerInv ==
    /\ TypeOK
    /\ Scanned
    /\ SeparatorsAreTokens
    /\ SeparatedBefore
    /\ SeparatedAfter
    /\ Ascending(marks)

-----------------------------------------------------------------------------
(* Appending a larger element keeps a sequence ascending.                  *)
LEMMA AppendAscending ==
    ASSUME NEW s \in Seq(Positions), NEW p \in Positions, Ascending(s),
           \A i \in DOMAIN s : s[i] < p
    PROVE  /\ Append(s, p) \in Seq(Positions)
           /\ Ascending(Append(s, p))
           /\ {Append(s, p)[i] : i \in DOMAIN Append(s, p)}
                  = {s[i] : i \in DOMAIN s} \cup {p}
<1>1. /\ Len(s) \in Nat /\ DOMAIN s = 1..Len(s)
      /\ DOMAIN Append(s, p) = 1..(Len(s) + 1)
      /\ \A i \in 1..Len(s) : Append(s, p)[i] = s[i]
      /\ Append(s, p)[Len(s) + 1] = p
  OBVIOUS
<1>2. Ascending(Append(s, p))
  <2> SUFFICES ASSUME NEW i \in 1..(Len(s) + 1), NEW j \in 1..(Len(s) + 1), i < j
               PROVE  Append(s, p)[i] < Append(s, p)[j]
    BY <1>1 DEF Ascending
  <2>1. CASE j = Len(s) + 1
    BY <1>1, <2>1
  <2>2. CASE j \in 1..Len(s)
    BY <1>1, <2>2 DEF Ascending
  <2> QED BY <1>1, <2>1, <2>2
<1>3. {Append(s, p)[i] : i \in 1..(Len(s) + 1)} = {s[i] : i \in 1..Len(s)} \cup {p}
  BY <1>1
<1> QED BY <1>1, <1>2, <1>3

(* What std::lower_bound returns in an ascending vector.                   *)
LEMMA LowerBoundAt ==
    ASSUME NEW s \in Seq(Positions), Ascending(s), NEW i \in DOMAIN s
    PROVE  Holds(s, s[i]) /\ LowerBound(s, s[i]) = i
<1> DEFINE P(n) == /\ \A j \in 1..(n - 1) : s[j] < s[i]
                   /\ n <= Len(s) => s[i] <= s[n]
<1>1. Len(s) \in Nat /\ DOMAIN s = 1..Len(s) /\ \A j \in 1..Len(s) : s[j] \in Nat
  BY DocumentSizeAssumption DEF Positions
<1>2. i \in 1..(Len(s) + 1) /\ P(i)
  <2>1. \A j \in 1..(i - 1) : s[j] < s[i]
    BY <1>1 DEF Ascending
  <2> QED BY <1>1, <2>1
<1>3. ASSUME NEW n \in 1..(Len(s) + 1), P(n) PROVE n = i
  <2>1. CASE n < i
    <3>1. n \in 1..Len(s) /\ s[n] < s[i]
      BY <1>1, <2>1 DEF Ascending
    <3> QED BY <1>1, <1>3, <3>1
  <2>2. CASE i < n
    <3>1. i \in 1..(n - 1)
      BY <1>1, <2>2
    <3> QED BY <1>1, <1>3, <3>1
  <2> QED BY <1>1, <2>1, <2>2
<1>4. LowerBound(s, s[i]) = CHOOSE n \in 1..(Len(s) + 1) : P(n)
  BY DEF LowerBound
<1>5. LowerBound(s, s[i]) = i
  <2> HIDE DEF P
  <2> QED BY <1>2, <1>3, <1>4
<1> QED BY <1>1, <1>5 DEF Holds

(* What type correctness says of each piece of the state.                  *)
LEMMA Typing ==
    ASSUME TypeOK
    PROVE  /\ Positions \subseteq Nat /\ tokens \subseteq Nat
           /\ last \in Nat /\ cursor \in Nat /\ saw \in BOOLEAN
           /\ \A k \in DOMAIN comments : Begin(k) \in Nat
           /\ Len(comments) \in Nat /\ DOMAIN comments = 1..Len(comments)
           /\ Len(separators) \in Nat /\ DOMAIN separators = 1..Len(separators)
           /\ \A i \in DOMAIN separators : separators[i] \in Nat
           /\ Separators \subseteq Nat
           /\ \A i \in DOMAIN marks : marks[i] \in Nat
<1>1. Positions \subseteq Nat
  BY DocumentSizeAssumption DEF Positions
<1>2. \A k \in DOMAIN comments : comments[k] \in Comment
  BY DEF TypeOK
<1>3. \A k \in DOMAIN comments : Begin(k) \in Positions
  BY <1>2 DEF Comment, Begin
<1>4. \A i \in DOMAIN separators : separators[i] \in Positions
  BY DEF TypeOK
<1>5. \A i \in DOMAIN marks : marks[i] \in Positions
  BY DEF TypeOK
<1>6. Separators \subseteq Nat
  BY <1>1, <1>4 DEF Separators
<1>7. /\ Len(comments) \in Nat /\ DOMAIN comments = 1..Len(comments)
      /\ Len(separators) \in Nat /\ DOMAIN separators = 1..Len(separators)
  BY DEF TypeOK
<1>8. tokens \subseteq Nat /\ last \in Nat /\ cursor \in Nat /\ saw \in BOOLEAN
  BY <1>1 DEF TypeOK
<1> QED BY <1>1, <1>3, <1>4, <1>5, <1>6, <1>7, <1>8

(* A token is scanned: it comes after everything in the document.          *)
LEMMA SeparatorStep ==
    ASSUME ScannerInv, pc = "scan", NEW p \in Positions, cursor <= p, AddSeparator(p),
           comments' = comments, cursor' \in Positions, p <= cursor',
           pc' \in {"scan", "end"}, pc' = "scan" => p < cursor'
    PROVE  /\ separators' \in Seq(Positions) /\ last' \in Positions /\ saw' \in BOOLEAN
           /\ tokens' \in SUBSET Positions
           /\ SeparatorsAreTokens' /\ SeparatedBefore' /\ SeparatedAfter'
           /\ \A k \in DOMAIN comments : Begin(k)' < p /\ Begin(k)' \notin tokens'
           /\ \A t \in tokens' : t <= last'
           /\ last' = p /\ tokens' = tokens \cup {p}
<1> USE DEF ScannerInv
<1>1. /\ tokens' = tokens \cup {p} /\ last' = p /\ saw' = FALSE
      /\ \A k : Begin(k)' = Begin(k)
  BY DEF AddSeparator, Begin
<1>2. /\ Positions \subseteq Nat /\ tokens \subseteq Nat /\ last \in Nat /\ p \in Nat
      /\ cursor \in Nat /\ saw \in BOOLEAN /\ Separators \subseteq Nat
      /\ \A k \in DOMAIN comments : Begin(k) \in Nat
      /\ separators \in Seq(Positions) /\ tokens \subseteq Positions
  <2>1. separators \in Seq(Positions) /\ tokens \subseteq Positions
    BY DEF TypeOK
  <2> QED BY <2>1, Typing
<1>3. /\ separators' \in Seq(Positions)
      /\ Ascending(separators')
      /\ Separators' = IF saw THEN Separators \cup {p} ELSE Separators
  <2>1. CASE ~saw
    BY <1>2, <2>1 DEF AddSeparator, SeparatorsAreTokens, Separators
  <2>2. CASE saw
    <3>1. separators # <<>> /\ \A i \in DOMAIN separators : separators[i] < p
      <4>1. last \in Separators
        BY <2>2 DEF SeparatorsAreTokens
      <4>2. separators # <<>>
        BY <4>1 DEF Separators
      <4>3. \A s \in Separators : s < p
        BY <1>2, <2>2 DEF SeparatorsAreTokens, Scanned
      <4> QED BY <4>2, <4>3 DEF Separators
    <3>2. Len(separators) \in DOMAIN separators
      BY <1>2, <3>1
    <3>3. separators' = Append(separators, p)
      BY <2>2, <3>1, <3>2 DEF AddSeparator, Separate, Back
    <3>4. Ascending(separators)
      BY DEF SeparatorsAreTokens
    <3> QED BY <1>2, <2>2, <3>1, <3>3, <3>4, AppendAscending DEF Separators
  <2> QED BY <1>2, <2>1, <2>2
<1>4. SeparatorsAreTokens'
  BY <1>1, <1>3 DEF SeparatorsAreTokens
<1>5. \A k \in DOMAIN comments : Begin(k) < p
  <2> SUFFICES ASSUME NEW k \in DOMAIN comments PROVE Begin(k) < p
    OBVIOUS
  <2>1. Begin(k) < cursor
    BY DEF Scanned
  <2> QED BY <1>2, <2>1
<1>6. SeparatedBefore'
  <2> SUFFICES ASSUME NEW k \in DOMAIN comments
               PROVE \E s \in Separators' :
                   s <= Begin(k) /\ \A t \in tokens' : ~(s < t /\ t <= Begin(k))
    BY <1>1 DEF SeparatedBefore
  <2>1. PICK s \in Separators :
            s <= Begin(k) /\ \A t \in tokens : ~(s < t /\ t <= Begin(k))
    BY DEF SeparatedBefore
  <2>2. s \in Separators' /\ ~(p <= Begin(k))
    BY <1>2, <1>3, <1>5, <2>1
  <2>3. \A t \in tokens' : ~(s < t /\ t <= Begin(k))
    BY <1>1, <2>1, <2>2
  <2> QED BY <2>1, <2>2, <2>3
<1>7. SeparatedAfter'
  <2> SUFFICES ASSUME NEW k \in DOMAIN comments
               PROVE /\ \A t \in tokens' : Begin(k) < t =>
                           \E s \in Separators' : Begin(k) < s /\ s <= t
                     /\ \E s \in Separators' : Begin(k) < s
    BY <1>1 DEF SeparatedAfter
  <2>1. \A s \in Separators : s <= p
    BY <1>2 DEF SeparatorsAreTokens, Scanned
  <2>2. \E s \in Separators' : Begin(k) < s /\ s <= p
    <3>1. CASE saw
      BY <1>2, <1>3, <1>5, <3>1
    <3>2. CASE ~saw
      BY <1>3, <2>1, <3>2 DEF SeparatedAfter
    <3> QED BY <3>1, <3>2
  <2> QED BY <1>1, <1>3, <2>2 DEF SeparatedAfter
<1>8. \A k \in DOMAIN comments : Begin(k)' < p /\ Begin(k)' \notin tokens'
  BY <1>1, <1>2, <1>5 DEF Scanned
<1>9. \A t \in tokens' : t <= last'
  BY <1>1, <1>2 DEF Scanned
<1> QED BY <1>1, <1>2, <1>3, <1>4, <1>6, <1>7, <1>8, <1>9

(* A comment is scanned: the token before it separates it from the others. *)
LEMMA CommentStep ==
    ASSUME ScannerInv, NEW description \in BOOLEAN, InDocument, AddComment(description),
           Advance, UNCHANGED <<tokens, marks, functions>>
    PROVE  ScannerInv'
<1> USE DEF ScannerInv
<1>1. /\ pc = "scan" /\ pc' = "scan" /\ cursor' = cursor + 1 /\ cursor < DocumentSize
      /\ tokens' = tokens /\ marks' = marks /\ saw' = TRUE /\ last' = last
  BY DEF InDocument, Advance, AddComment
<1>2. /\ Positions \subseteq Nat /\ tokens \subseteq Nat /\ last \in Nat
      /\ cursor \in Nat /\ saw \in BOOLEAN /\ Separators \subseteq Nat
      /\ \A k \in DOMAIN comments : Begin(k) \in Nat
      /\ separators \in Seq(Positions) /\ comments \in Seq(Comment)
      /\ last \in Positions /\ cursor \in Positions /\ cursor' \in Positions
  <2>1. /\ separators \in Seq(Positions) /\ comments \in Seq(Comment)
        /\ last \in Positions /\ cursor \in Positions
    BY DEF TypeOK
  <2>2. cursor' \in Positions
    BY <1>1, <2>1, DocumentSizeAssumption DEF Positions
  <2> QED BY <2>1, <2>2, Typing
<1>3. /\ comments' \in Seq(Comment)
      /\ DOMAIN comments' = DOMAIN comments \cup {Len(comments) + 1}
      /\ \A k \in DOMAIN comments : Begin(k)' = Begin(k)
      /\ comments'[Len(comments) + 1].begin = cursor
  BY <1>2 DEF AddComment, Comment, Begin
<1>4. /\ separators' \in Seq(Positions)
      /\ Ascending(separators')
      /\ Separators' = Separators \cup {last}
  <2>1. CASE saw
    BY <1>2, <2>1 DEF AddComment, SeparatorsAreTokens, Separators
  <2>2. CASE ~saw
    <3>1. separators' = Separate(last)
      BY <2>2 DEF AddComment
    <3>2. \A i \in DOMAIN separators : separators[i] <= last
      <4>1. \A s \in Separators : s <= last
        BY <1>2 DEF SeparatorsAreTokens, Scanned
      <4> QED BY <4>1 DEF Separators
    <3>3. /\ separators # <<>> => Len(separators) \in DOMAIN separators
          /\ Len(separators) \in Nat /\ DOMAIN separators = 1..Len(separators)
          /\ \A i \in DOMAIN separators : separators[i] \in Nat
          /\ Ascending(separators)
      <4>1. Ascending(separators)
        BY DEF SeparatorsAreTokens
      <4>2. separators # <<>> => Len(separators) \in DOMAIN separators
        BY <1>2
      <4> QED BY <4>1, <4>2, Typing
    <3>4. CASE separators = <<>> \/ Back(separators) < last
      <4>1. separators' = Append(separators, last)
        BY <3>1, <3>4 DEF Separate
      <4>2. \A i \in DOMAIN separators : separators[i] < last
        <5>1. CASE separators = <<>>
          BY <5>1
        <5>2. CASE Back(separators) < last
          BY <1>2, <3>3, <5>2 DEF Back, Ascending
        <5> QED BY <3>4, <5>1, <5>2
      <4>3. /\ Append(separators, last) \in Seq(Positions)
            /\ Ascending(Append(separators, last))
            /\ {Append(separators, last)[i] : i \in DOMAIN Append(separators, last)}
                   = {separators[i] : i \in DOMAIN separators} \cup {last}
        BY <1>2, <3>3, <4>2, AppendAscending
      <4> QED BY <4>1, <4>3 DEF Separators
    <3>5. CASE ~(separators = <<>> \/ Back(separators) < last)
      <4>1. separators' = separators /\ Back(separators) = last
        BY <1>2, <3>1, <3>2, <3>3, <3>5 DEF Separate, Back
      <4>2. last \in Separators
        BY <3>3, <3>5, <4>1 DEF Separators, Back
      <4> QED BY <1>2, <3>3, <4>1, <4>2 DEF Separators
    <3> QED BY <3>4, <3>5
  <2> QED BY <1>2, <2>1, <2>2
<1>5. TypeOK'
  BY <1>1, <1>2, <1>3, <1>4 DEF TypeOK
<1>6. Scanned'
  <2>1. \A k \in DOMAIN comments' : Begin(k)' < cursor' /\ Begin(k)' \notin tokens'
    <3>1. \A k \in DOMAIN comments : Begin(k)' < cursor' /\ Begin(k)' \notin tokens'
      <4> SUFFICES ASSUME NEW k \in DOMAIN comments
                   PROVE Begin(k) < cursor + 1 /\ Begin(k) \notin tokens
        BY <1>1, <1>3
      <4>1. Begin(k) < cursor /\ Begin(k) \notin tokens
        BY DEF Scanned
      <4> QED BY <1>2, <4>1
    <3>2. comments'[Len(comments) + 1].begin < cursor' /\ comments'[Len(comments) + 1].begin \notin tokens'
      BY <1>1, <1>2, <1>3 DEF Scanned
    <3> QED BY <1>3, <3>1, <3>2 DEF Begin
  <2>2. \A i \in DOMAIN marks' : marks'[i] < cursor'
    BY <1>1, <1>2, DocumentSizeAssumption DEF Scanned, TypeOK, Positions
  <2>3. \A t \in tokens' : t <= last' /\ t < cursor'
    BY <1>1, <1>2 DEF Scanned
  <2>4. last' <= cursor' /\ 0 < cursor' /\ last' \in tokens' \cup {0}
    BY <1>1, <1>2 DEF Scanned
  <2> QED BY <1>1, <2>1, <2>2, <2>3, <2>4 DEF Scanned
<1>7. SeparatorsAreTokens'
  BY <1>1, <1>4 DEF SeparatorsAreTokens, Scanned
<1>8. SeparatedBefore'
  <2> SUFFICES ASSUME NEW k \in DOMAIN comments'
               PROVE \E s \in Separators' :
                   s <= Begin(k)' /\ \A t \in tokens : ~(s < t /\ t <= Begin(k)')
    BY <1>1 DEF SeparatedBefore
  <2>1. CASE k \in DOMAIN comments
    BY <1>3, <1>4, <2>1 DEF SeparatedBefore
  <2>2. CASE k = Len(comments) + 1
    <3>1. last <= cursor /\ \A t \in tokens : ~(last < t)
      BY <1>1, <1>2 DEF Scanned
    <3>2. Begin(k)' = cursor /\ last \in Separators'
      BY <1>3, <1>4, <2>2 DEF Begin
    <3>3. \A t \in tokens : ~(last < t /\ t <= cursor)
      BY <3>1
    <3> QED BY <3>1, <3>2, <3>3
  <2> QED BY <1>3, <2>1, <2>2
<1>9. SeparatedAfter'
  <2> SUFFICES ASSUME NEW k \in DOMAIN comments', NEW t \in tokens, Begin(k)' < t
               PROVE \E s \in Separators' : Begin(k)' < s /\ s <= t
    BY <1>1 DEF SeparatedAfter
  <2>1. CASE k \in DOMAIN comments
    BY <1>3, <1>4, <2>1 DEF SeparatedAfter
  <2>2. CASE k = Len(comments) + 1
    <3>1. Begin(k)' = cursor /\ t < cursor
      BY <1>1, <1>3, <2>2 DEF Begin, Scanned
    <3> QED BY <1>2, <3>1
  <2> QED BY <1>3, <2>1, <2>2
<1>10. Ascending(marks')
  BY <1>1
<1> QED BY <1>5, <1>6, <1>7, <1>8, <1>9, <1>10

(* A placeholder mark is entered before its token.                         *)
LEMMA MarkStep ==
    ASSUME ScannerInv, InDocument, marks' = Append(marks, cursor)
    PROVE  /\ marks' \in Seq(Positions)
           /\ Ascending(marks')
           /\ \A i \in DOMAIN marks' : marks'[i] < cursor + 1
<1>1. /\ TypeOK /\ Ascending(marks) /\ pc = "scan" /\ marks \in Seq(Positions)
      /\ cursor \in Positions
  BY DEF ScannerInv, InDocument, TypeOK
<1>2. \A i \in DOMAIN marks : marks[i] < cursor
  BY <1>1 DEF ScannerInv, Scanned
<1>3. marks' \in Seq(Positions) /\ Ascending(marks')
  BY <1>1, <1>2, AppendAscending
<1>4. \A i \in DOMAIN marks' : marks'[i] = cursor \/ marks'[i] \in {marks[j] : j \in DOMAIN marks}
  BY <1>1
<1>5. ASSUME NEW i \in DOMAIN marks' PROVE marks'[i] < cursor + 1
  <2>1. CASE marks'[i] = cursor
    BY <1>1, <2>1, Typing
  <2>2. CASE marks'[i] # cursor
    <3>1. PICK j \in DOMAIN marks : marks'[i] = marks[j]
      BY <1>4, <2>2
    <3> QED BY <1>1, <1>2, <3>1, Typing
  <2> QED BY <2>1, <2>2
<1> QED BY <1>3, <1>5

(* A token, wherever it comes from.                                        *)
LEMMA TokenStep ==
    ASSUME ScannerInv, Token \/ QuestionMark \/ (\E keyword \in Keywords : SetFunction(keyword))
    PROVE  ScannerInv'
<1>1. /\ InDocument /\ AddSeparator(cursor) /\ Advance /\ comments' = comments
      /\ marks' = marks \/ marks' = Append(marks, cursor)
  BY DEF Token, QuestionMark, SetFunction
<1>2. /\ TypeOK /\ cursor \in Positions /\ cursor \in Nat /\ pc = "scan"
      /\ cursor' = cursor + 1 /\ pc' = "scan" /\ comments \in Seq(Comment)
      /\ marks \in Seq(Positions)
  BY <1>1, Typing DEF ScannerInv, InDocument, Advance, TypeOK
<1>3. cursor' \in Positions /\ cursor <= cursor /\ cursor < cursor'
  BY <1>1, <1>2, DocumentSizeAssumption DEF InDocument, Positions
<1>4. /\ separators' \in Seq(Positions) /\ last' \in Positions /\ saw' \in BOOLEAN
      /\ tokens' \in SUBSET Positions
      /\ SeparatorsAreTokens' /\ SeparatedBefore' /\ SeparatedAfter'
      /\ \A k \in DOMAIN comments : Begin(k)' < cursor /\ Begin(k)' \notin tokens'
      /\ \A t \in tokens' : t <= last'
      /\ last' = cursor /\ tokens' = tokens \cup {cursor}
  BY <1>1, <1>2, <1>3, SeparatorStep
<1>5. /\ marks' \in Seq(Positions) /\ Ascending(marks')
      /\ \A i \in DOMAIN marks' : marks'[i] < cursor'
  <2>1. CASE marks' = Append(marks, cursor)
    BY <1>1, <1>2, <2>1, MarkStep
  <2>2. CASE marks' = marks
    <3>1. \A i \in DOMAIN marks : marks[i] < cursor /\ marks[i] \in Nat
      BY <1>2, Typing DEF ScannerInv, Scanned
    <3> QED BY <1>2, <2>2, <3>1 DEF ScannerInv
  <2> QED BY <1>1, <2>1, <2>2
<1>6. TypeOK'
  BY <1>1, <1>2, <1>3, <1>4, <1>5 DEF TypeOK
<1>7. Scanned'
  <2>1. \A k \in DOMAIN comments' : Begin(k)' < cursor' /\ Begin(k)' \notin tokens'
    <3> SUFFICES ASSUME NEW k \in DOMAIN comments
                 PROVE Begin(k)' < cursor' /\ Begin(k)' \notin tokens'
      BY <1>1
    <3>1. Begin(k)' = Begin(k) /\ Begin(k) \in Nat
      BY <1>1, <1>2, Typing DEF Begin
    <3> QED BY <1>2, <1>4, <3>1
  <2>2. \A t \in tokens' : t <= last' /\ t < cursor'
    BY <1>2, <1>4, Typing
  <2> QED BY <1>2, <1>3, <1>4, <1>5, <2>1, <2>2 DEF Scanned
<1> QED BY <1>4, <1>5, <1>6, <1>7 DEF ScannerInv

(* The last token.                                                         *)
LEMMA EndStep == ASSUME ScannerInv, EndOfFile PROVE ScannerInv'
<1>1. /\ AddSeparator(DocumentSize) /\ comments' = comments /\ marks' = marks
      /\ pc = "scan" /\ pc' = "end" /\ cursor' = DocumentSize
  BY DEF EndOfFile
<1>2. /\ TypeOK /\ DocumentSize \in Positions /\ DocumentSize \in Nat
      /\ cursor <= DocumentSize
      /\ comments \in Seq(Comment) /\ marks \in Seq(Positions)
  BY DocumentSizeAssumption DEF ScannerInv, TypeOK, Positions
<1>3. /\ separators' \in Seq(Positions) /\ last' \in Positions /\ saw' \in BOOLEAN
      /\ tokens' \in SUBSET Positions
      /\ SeparatorsAreTokens' /\ SeparatedBefore' /\ SeparatedAfter'
      /\ \A k \in DOMAIN comments : Begin(k)' < DocumentSize /\ Begin(k)' \notin tokens'
      /\ \A t \in tokens' : t <= last'
      /\ last' = DocumentSize /\ tokens' = tokens \cup {DocumentSize}
  BY <1>1, <1>2, SeparatorStep
<1>4. TypeOK'
  BY <1>1, <1>2, <1>3 DEF TypeOK
<1>5. Scanned'
  BY <1>1, <1>3 DEF Scanned
<1>6. Ascending(marks')
  BY <1>1 DEF ScannerInv
<1> QED BY <1>3, <1>4, <1>5, <1>6 DEF ScannerInv

(* The invariant of the scanner and the driver.                            *)
LEMMA ScannerInvKept == Spec => []ScannerInv
<1>1. Init => ScannerInv
  <2> SUFFICES ASSUME Init PROVE ScannerInv
    OBVIOUS
  <2> USE DEF Init
  <2>1. TypeOK
    <3>1. 0 \in Positions
      BY DocumentSizeAssumption DEF Positions
    <3>2. comments \in Seq(Comment) /\ separators \in Seq(Positions) /\ marks \in Seq(Positions)
      OBVIOUS
    <3>3. /\ pc \in {"scan", "end"} /\ saw \in BOOLEAN /\ tokens \in SUBSET Positions
          /\ cursor \in Positions /\ last \in Positions
      BY <3>1
    <3> QED BY <3>2, <3>3 DEF TypeOK
  <2>2. Scanned
    BY DEF Scanned
  <2>3. SeparatorsAreTokens
    BY DEF SeparatorsAreTokens, Separators, Ascending
  <2>4. SeparatedBefore /\ SeparatedAfter /\ Ascending(marks)
    BY DEF SeparatedBefore, SeparatedAfter, Ascending
  <2> QED BY <2>1, <2>2, <2>3, <2>4 DEF ScannerInv
<1>2. ScannerInv /\ [Next]_vars => ScannerInv'
  <2> SUFFICES ASSUME ScannerInv, [Next]_vars PROVE ScannerInv'
    OBVIOUS
  <2>1. CASE Blank
    <3>1. /\ pc = "scan" /\ pc' = "scan" /\ cursor' = cursor + 1 /\ cursor < DocumentSize
          /\ UNCHANGED <<tokens, comments, separators, saw, last, marks>>
      BY <2>1 DEF Blank, InDocument, Advance, grouping
    <3>2. TypeOK' /\ cursor \in Nat
      BY <3>1, DocumentSizeAssumption DEF ScannerInv, TypeOK, Positions
    <3>3. Scanned'
      <4>1. \A k \in DOMAIN comments : Begin(k)' = Begin(k) /\ Begin(k) < cursor + 1
        BY <3>1, Typing DEF ScannerInv, Scanned, Begin
      <4>2. \A t \in tokens : t < cursor + 1
        BY <3>1, Typing DEF ScannerInv, Scanned
      <4>3. \A i \in DOMAIN marks : marks[i] < cursor + 1
        BY <3>1, Typing DEF ScannerInv, Scanned
      <4>4. last <= cursor + 1 /\ (saw => 0 < cursor + 1)
        BY <3>1, <3>2, Typing DEF ScannerInv, Scanned
      <4> QED BY <3>1, <4>1, <4>2, <4>3, <4>4 DEF ScannerInv, Scanned
    <3>4. SeparatorsAreTokens' /\ SeparatedBefore' /\ SeparatedAfter' /\ Ascending(marks')
      BY <3>1 DEF ScannerInv, SeparatorsAreTokens, SeparatedBefore, SeparatedAfter,
         Separators, Begin
    <3> QED BY <3>2, <3>3, <3>4 DEF ScannerInv
  <2>2. CASE ScanComment
    BY <2>2, CommentStep DEF ScanComment
  <2>3. CASE Token \/ QuestionMark \/ \E keyword \in Keywords : SetFunction(keyword)
    BY <2>3, TokenStep
  <2>4. CASE EndOfFile
    BY <2>4, EndStep
  <2>5. CASE UNCHANGED vars
    BY <2>5 DEF vars, grouping, ScannerInv, TypeOK, Scanned, SeparatorsAreTokens,
       SeparatedBefore, SeparatedAfter, Separators, Begin
  <2> QED BY <2>1, <2>2, <2>3, <2>4, <2>5 DEF Next
<1> QED BY <1>1, <1>2, PTL DEF Spec

-----------------------------------------------------------------------------
(* A comment between a token and the one before it.                        *)
LEMMA LeadingFound ==
    ASSUME ScannerInv, NEW t \in tokens
    PROVE  LeadingComments(t) =
               {k \in DOMAIN comments : Begin(k) < t /\ NoTokenWithin(Begin(k), t)}
<1> DEFINE directly == {k \in DOMAIN comments : Begin(k) < t /\ NoTokenWithin(Begin(k), t)}
<1>1. /\ TypeOK /\ t \in Nat /\ separators \in Seq(Positions) /\ Ascending(separators)
      /\ Separators \subseteq Nat
  BY Typing DEF ScannerInv, SeparatorsAreTokens, TypeOK
<1>2. \A k \in DOMAIN comments : Begin(k) \in Nat /\ Begin(k) \notin tokens
  BY <1>1, Typing DEF ScannerInv, Scanned
<1>3. ASSUME NEW k \in directly PROVE t \in Separators
  <2>1. PICK s \in Separators : Begin(k) < s /\ s <= t
    BY <1>2 DEF ScannerInv, SeparatedAfter
  <2>2. s \in tokens
    BY <1>1, <1>2, <2>1 DEF ScannerInv, SeparatorsAreTokens
  <2>3. s = t
    BY <1>1, <2>1, <2>2 DEF NoTokenWithin
  <2> QED BY <2>3
<1>4. ASSUME NEW k \in directly, NEW i \in DOMAIN separators, separators[i] = t
      PROVE  i > 1 /\ separators[i - 1] <= Begin(k)
  <2>1. PICK s \in Separators :
            s <= Begin(k) /\ \A u \in tokens : ~(s < u /\ u <= Begin(k))
    BY DEF ScannerInv, SeparatedBefore
  <2>2. PICK j \in DOMAIN separators : separators[j] = s
    BY DEF Separators
  <2>3. s < t /\ s \in Nat
    BY <1>1, <1>2, <2>1
  <2>4. /\ Len(separators) \in Nat /\ DOMAIN separators = 1..Len(separators)
        /\ \A n \in DOMAIN separators : separators[n] \in Nat
    BY <1>1, Typing
  <2>5. j < i
    <3>1. ~(i < j) /\ i # j
      BY <1>1, <1>4, <2>2, <2>3, <2>4 DEF Ascending
    <3> QED BY <2>4, <3>1
  <2>6. i > 1 /\ i - 1 \in DOMAIN separators
    BY <2>4, <2>5
  <2>7. CASE i - 1 = j
    BY <2>1, <2>2, <2>6, <2>7
  <2>8. CASE i - 1 # j
    <3>1. s < separators[i - 1] /\ separators[i - 1] < t
      BY <1>1, <1>4, <2>2, <2>4, <2>5, <2>6, <2>8 DEF Ascending
    <3>2. separators[i - 1] \in Separators
      BY <2>6 DEF Separators
    <3>3. separators[i - 1] \in tokens
      BY <2>3, <2>4, <2>6, <3>1, <3>2 DEF ScannerInv, SeparatorsAreTokens
    <3>4. ~(separators[i - 1] <= Begin(k)) /\ ~(Begin(k) < separators[i - 1])
      BY <2>1, <3>1, <3>3 DEF NoTokenWithin
    <3>5. separators[i - 1] \in Nat /\ Begin(k) \in Nat
      BY <1>2, <2>4, <2>6
    <3> QED BY <3>4, <3>5
  <2> QED BY <2>7, <2>8
<1>5. CASE t \notin Separators
  <2>1. ~Holds(separators, t)
    BY <1>5 DEF Holds, Separators
  <2> QED BY <1>3, <1>5, <2>1 DEF LeadingComments
<1>6. CASE t \in Separators
  <2>1. PICK i \in DOMAIN separators : separators[i] = t
    BY <1>6 DEF Separators
  <2>2. Holds(separators, t) /\ LowerBound(separators, t) = i
    BY <1>1, <2>1, LowerBoundAt
  <2>3. CASE ~(i > 1)
    BY <1>4, <2>1, <2>2, <2>3 DEF LeadingComments
  <2>4. CASE i > 1
    <3> DEFINE within == CommentsInRange(separators[i - 1], t)
    <3>1. LeadingComments(t) = within
      BY <2>2, <2>4 DEF LeadingComments
    <3>2. /\ Len(separators) \in Nat /\ DOMAIN separators = 1..Len(separators)
          /\ \A n \in DOMAIN separators : separators[n] \in Nat
      BY <1>1, Typing
    <3>3. i - 1 \in DOMAIN separators /\ separators[i - 1] < t
      BY <1>1, <2>1, <2>4, <3>2 DEF Ascending
    <3>4. ASSUME NEW k \in within PROVE k \in directly
      <4>1. k \in DOMAIN comments /\ separators[i - 1] <= Begin(k) /\ Begin(k) <= t
        BY DEF CommentsInRange, Begin
      <4>2. Begin(k) < t
        BY <1>1, <1>2, <4>1
      <4>3. ASSUME NEW u \in tokens, Begin(k) < u, u < t PROVE FALSE
        <5>1. PICK s \in Separators : Begin(k) < s /\ s <= u
          BY <4>1, <4>3 DEF ScannerInv, SeparatedAfter
        <5>2. PICK j \in DOMAIN separators : separators[j] = s
          BY DEF Separators
        <5>3. u \in Nat /\ s \in Nat /\ Begin(k) \in Nat /\ separators[i - 1] \in Nat
          BY <1>1, <1>2, <3>2, <3>3, <4>1, Typing
        <5>4. separators[i - 1] < separators[j] /\ separators[j] < separators[i]
          BY <1>1, <2>1, <4>1, <4>3, <5>1, <5>2, <5>3
        <5>5. ~(j < i - 1) /\ ~(i < j) /\ j # i /\ j # i - 1
          BY <1>1, <2>1, <3>2, <3>3, <5>2, <5>4 DEF Ascending
        <5> QED BY <3>2, <3>3, <5>5
      <4> QED BY <4>1, <4>2, <4>3 DEF NoTokenWithin
    <3>5. ASSUME NEW k \in directly PROVE k \in within
      BY <1>1, <1>2, <1>4, <2>1 DEF CommentsInRange, Begin
    <3> QED BY <3>1, <3>4, <3>5
  <2> QED BY <2>3, <2>4
<1> QED BY <1>5, <1>6

(* A comment between a token and the one after it.                         *)
LEMMA FollowingFound ==
    ASSUME ScannerInv, NEW t \in tokens
    PROVE  FollowingComments(t) =
               {k \in DOMAIN comments : t < Begin(k) /\ NoTokenWithin(t, Begin(k))}
<1> DEFINE directly == {k \in DOMAIN comments : t < Begin(k) /\ NoTokenWithin(t, Begin(k))}
<1>1. /\ TypeOK /\ t \in Nat /\ separators \in Seq(Positions) /\ Ascending(separators)
      /\ Separators \subseteq Nat /\ tokens \subseteq Nat
  BY Typing DEF ScannerInv, SeparatorsAreTokens, TypeOK
<1>2. \A k \in DOMAIN comments : Begin(k) \in Nat /\ Begin(k) \notin tokens
  BY <1>1, Typing DEF ScannerInv, Scanned
<1>3. \A k \in DOMAIN comments : Begin(k) <= DocumentSize
  <2>1. \A k \in DOMAIN comments : comments[k] \in Comment
    BY <1>1 DEF TypeOK
  <2> QED BY <2>1, DocumentSizeAssumption DEF Comment, Positions, Begin
<1>4. ASSUME NEW k \in DOMAIN comments, NEW s \in Separators, t < Begin(k),
             s <= Begin(k), \A u \in tokens : ~(s < u /\ u <= Begin(k)),
             NoTokenWithin(t, Begin(k))
      PROVE  s = t
  <2>1. s \in Nat /\ ~(s < t)
    BY <1>1, <1>2, <1>4
  <2>2. CASE t < s
    <3>1. s \in tokens /\ s # Begin(k)
      BY <1>1, <1>2, <2>1, <2>2 DEF ScannerInv, SeparatorsAreTokens
    <3> QED BY <1>2, <1>4, <2>1, <2>2, <3>1 DEF NoTokenWithin
  <2> QED BY <1>1, <2>1, <2>2
<1>5. ASSUME NEW k \in directly PROVE t \in Separators
  <2>1. PICK s \in Separators :
            s <= Begin(k) /\ \A u \in tokens : ~(s < u /\ u <= Begin(k))
    BY DEF ScannerInv, SeparatedBefore
  <2> QED BY <1>4, <2>1
<1>6. CASE t \notin Separators
  <2>1. ~Holds(separators, t)
    BY <1>6 DEF Holds, Separators
  <2> QED BY <1>5, <1>6, <2>1 DEF FollowingComments
<1>7. CASE t \in Separators
  <2>1. PICK i \in DOMAIN separators : separators[i] = t
    BY <1>7 DEF Separators
  <2>2. Holds(separators, t) /\ LowerBound(separators, t) = i
    BY <1>1, <2>1, LowerBoundAt
  <2>3. /\ Len(separators) \in Nat /\ DOMAIN separators = 1..Len(separators)
        /\ \A n \in DOMAIN separators : separators[n] \in Nat
    BY <1>1, Typing
  <2> DEFINE to == IF i = Len(separators) THEN DocumentSize ELSE separators[i + 1]
             within == CommentsInRange(t, to)
  <2>4. FollowingComments(t) = within
    BY <2>2 DEF FollowingComments
  <2>5. ASSUME NEW k \in within PROVE k \in directly
    <3>1. k \in DOMAIN comments /\ t <= Begin(k) /\ Begin(k) <= to
      BY DEF CommentsInRange, Begin
    <3>2. t < Begin(k)
      BY <1>1, <1>2, <3>1
    <3>3. PICK s \in Separators :
              s <= Begin(k) /\ \A u \in tokens : ~(s < u /\ u <= Begin(k))
      BY <3>1 DEF ScannerInv, SeparatedBefore
    <3>4. PICK j \in DOMAIN separators : separators[j] = s
      BY DEF Separators
    <3>5. ~(i < j)
      <4>1. SUFFICES ASSUME i < j PROVE FALSE
        OBVIOUS
      <4>2. i # Len(separators) /\ i + 1 \in DOMAIN separators
        BY <2>3, <4>1
      <4>3. separators[i + 1] <= s /\ separators[i] < separators[i + 1]
        <5>1. CASE i + 1 = j
          BY <1>1, <2>1, <2>3, <3>4, <4>2, <5>1 DEF Ascending
        <5>2. CASE i + 1 # j
          <6>1. i + 1 < j /\ i < i + 1
            BY <2>3, <4>1, <5>2
          <6> QED BY <1>1, <2>1, <2>3, <3>4, <4>2, <6>1 DEF Ascending
        <5> QED BY <5>1, <5>2
      <4>4. Begin(k) = s /\ s # 0
        BY <1>1, <1>2, <2>1, <2>3, <3>1, <3>3, <4>2, <4>3
      <4>5. s \in tokens
        BY <4>4 DEF ScannerInv, SeparatorsAreTokens
      <4> QED BY <1>2, <3>1, <4>4, <4>5
    <3>6. s = t
      <4>1. ~(s < t)
        BY <3>1, <3>3
      <4>2. j < i => s < t
        BY <1>1, <2>1, <2>3, <3>4 DEF Ascending
      <4>3. j = i
        BY <2>3, <3>5, <4>1, <4>2
      <4> QED BY <2>1, <3>4, <4>3
    <3>7. NoTokenWithin(t, Begin(k))
      <4> SUFFICES ASSUME NEW u \in tokens, t < u, u < Begin(k) PROVE FALSE
        BY DEF NoTokenWithin
      <4>1. u <= Begin(k)
        BY <1>1, <1>2, <3>1
      <4> QED BY <3>3, <3>6, <4>1
    <3> QED BY <3>1, <3>2, <3>7
  <2>6. ASSUME NEW k \in directly PROVE k \in within
    <3>1. Begin(k) \in Nat /\ t <= Begin(k) /\ Begin(k) <= DocumentSize
      BY <1>1, <1>2, <1>3
    <3>2. ASSUME i # Len(separators) PROVE Begin(k) <= separators[i + 1]
      <4>1. i + 1 \in DOMAIN separators /\ t < separators[i + 1]
        BY <1>1, <2>1, <2>3, <3>2 DEF Ascending
      <4>2. separators[i + 1] \in Separators
        BY <4>1 DEF Separators
      <4>3. separators[i + 1] \in tokens
        BY <1>1, <2>3, <4>1, <4>2 DEF ScannerInv, SeparatorsAreTokens
      <4> QED BY <2>3, <3>1, <4>1, <4>3 DEF NoTokenWithin
    <3> QED BY <3>1, <3>2 DEF CommentsInRange, Begin
  <2> QED BY <2>4, <2>5, <2>6
<1> QED BY <1>6, <1>7

(* The description of a token is one of its leading comments.              *)
LEMMA DescriptionLeads ==
    ASSUME ScannerInv, NEW t \in tokens, LeadingDescription(t) # NoComment
    PROVE  LeadingDescription(t) \in LeadingComments(t)
<1> DEFINE described == {k \in LeadingComments(t) : comments[k].description}
<1>1. described # {}
  BY DEF LeadingDescription
<1>2. Len(comments) \in Nat /\ described \subseteq 1..Len(comments)
  BY LeadingFound, Typing DEF ScannerInv
<1>3. \E k \in described : \A l \in described : l <= k
  <2> DEFINE distances == {Len(comments) - k : k \in described}
  <2>1. distances \in SUBSET Nat /\ distances # {}
    BY <1>1, <1>2
  <2>2. PICK m \in distances : \A n \in distances : m <= n
    <3> HIDE DEF distances
    <3> QED BY <2>1, LeastNatural
  <2>3. PICK k \in described : m = Len(comments) - k
    OBVIOUS
  <2>4. ASSUME NEW l \in described PROVE l <= k
    <3>1. Len(comments) - l \in distances
      OBVIOUS
    <3>2. m <= Len(comments) - l
      BY <2>2, <3>1
    <3>3. l \in Nat /\ k \in Nat
      BY <1>2
    <3> QED BY <1>2, <2>3, <3>2, <3>3
  <2> QED BY <2>4
<1>4. LeadingDescription(t) = CHOOSE k \in described : \A l \in described : l <= k
  BY <1>1 DEF LeadingDescription
<1>5. LeadingDescription(t) \in described
  <2> HIDE DEF described
  <2> QED BY <1>3, <1>4
<1> QED BY <1>5

(* The comments around every token are found, however long the document    *)
(* is, however its comments are grouped, and whenever the parser asks.     *)
THEOREM CommentsFound == Spec => []CommentsExact
<1>1. ASSUME ScannerInv PROVE CommentsExact
  <2> USE <1>1
  <2>1. TypeOK
    BY DEF ScannerInv
  <2>2. LeadingExact
    BY LeadingFound DEF LeadingExact, Begin
  <2>3. FollowingExact
    BY FollowingFound DEF FollowingExact, Begin
  <2>4. DescribesOne
    <3> SUFFICES ASSUME NEW t \in tokens, NEW u \in tokens,
                        LeadingDescription(t) = LeadingDescription(u),
                        LeadingDescription(t) # NoComment
                 PROVE  t = u
      BY DEF DescribesOne
    <3> DEFINE k == LeadingDescription(t)
    <3>1. k \in LeadingComments(t) /\ k \in LeadingComments(u)
      BY DescriptionLeads
    <3>2. /\ Begin(k) < t /\ NoTokenWithin(Begin(k), t)
          /\ Begin(k) < u /\ NoTokenWithin(Begin(k), u)
      <4> HIDE DEF k
      <4> QED BY <3>1, LeadingFound
    <3>3. t \in Nat /\ u \in Nat
      BY <2>1, Typing
    <3> HIDE DEF k
    <3> QED BY <3>2, <3>3 DEF NoTokenWithin
  <2> QED BY <2>1, <2>2, <2>3, <2>4 DEF CommentsExact
<1>2. ScannerInv => CommentsExact
  BY <1>1
<1> QED BY <1>2, ScannerInvKept, PTL

(* Every placeholder gets the number of its mark.                          *)
THEOREM PlaceholdersFound == Spec => []PlaceholdersNumbered
<1>1. ASSUME ScannerInv PROVE PlaceholdersNumbered
  <2>1. marks \in Seq(Positions) /\ Ascending(marks)
    BY <1>1 DEF ScannerInv, TypeOK
  <2> QED BY <2>1, LowerBoundAt DEF PlaceholdersNumbered, FindPlaceholderMark
<1>2. ScannerInv => PlaceholdersNumbered
  BY <1>1
<1> QED BY <1>2, ScannerInvKept, PTL

-----------------------------------------------------------------------------
(* A finite set of numbers has a largest element, and Max finds it.        *)
LEMMA Maximum ==
    ASSUME NEW S \in SUBSET Nat, IsFiniteSet(S), S # {}
    PROVE  Max(S) \in S /\ \A n \in S : Max(S) >= n
<1> DEFINE Topped(T) == \E m \in T : \A n \in T : m >= n
           Sizes == {c \in Nat : \E T \in SUBSET S : T # {} /\ Cardinality(T) = c /\ ~Topped(T)}
<1>1. Topped(S)
  <2> SUFFICES ASSUME ~Topped(S) PROVE FALSE
    OBVIOUS
  <2>1. Cardinality(S) \in Sizes
    BY FS_CardinalityType
  <2>2. PICK c \in Sizes : \A d \in Sizes : c <= d
    <3> HIDE DEF Sizes
    <3>1. Sizes \in SUBSET Nat
      BY DEF Sizes
    <3> QED BY <2>1, <3>1, LeastNatural
  <2>3. PICK T \in SUBSET S : T # {} /\ Cardinality(T) = c /\ ~Topped(T)
    OBVIOUS
  <2>4. PICK x \in T : TRUE
    BY <2>3
  <2>5. IsFiniteSet(T)
    BY FS_Subset
  <2>6. Cardinality(T \ {x}) = c - 1 /\ c \in Nat /\ c - 1 \in Nat
    <3>1. Cardinality(T \ {x}) = c - 1
      BY <2>3, <2>5, FS_RemoveElement
    <3>2. Cardinality(T \ {x}) \in Nat
      BY <2>5, FS_RemoveElement, FS_CardinalityType
    <3> QED BY <3>1, <3>2
  <2>7. c - 1 \notin Sizes
    BY <2>2, <2>6
  <2>8. T \ {x} = {} \/ Topped(T \ {x})
    BY <2>6, <2>7
  <2>9. T \in SUBSET Nat /\ x \in Nat
    OBVIOUS
  <2>10. CASE T \ {x} = {}
    BY <2>3, <2>9, <2>10
  <2>11. CASE Topped(T \ {x})
    <3>1. PICK m \in T \ {x} : \A n \in T \ {x} : m >= n
      BY <2>11
    <3>2. CASE m >= x
      BY <2>3, <3>1, <3>2
    <3>3. CASE ~(m >= x)
      <4>1. \A n \in T : x >= n
        BY <2>9, <3>1, <3>3
      <4> QED BY <2>3, <4>1
    <3> QED BY <3>2, <3>3
  <2> QED BY <2>8, <2>10, <2>11
<1> QED BY <1>1 DEF Max

-----------------------------------------------------------------------------
(* Prefixes of paths.                                                      *)
Under(q, p) == Len(q) <= Len(p) /\ SubSeq(p, 1, Len(q)) = q

(* What a prefix of a path is made of.                                     *)
LEMMA Prefix ==
    ASSUME NEW S, NEW p \in Seq(S), NEW n \in 0..Len(p)
    PROVE  /\ SubSeq(p, 1, n) \in Seq(S)
           /\ Len(SubSeq(p, 1, n)) = n
           /\ \A i \in 1..n : SubSeq(p, 1, n)[i] = p[i]
<1>1. \A i \in 1..n : p[i] \in S
  BY LenProperties
<1>2. n \in Int /\ (1 <= n => n - 1 + 1 = n) /\ (~(1 <= n) => n = 0)
  BY LenProperties
<1>3. /\ SubSeq(p, 1, n) \in Seq(S)
      /\ Len(SubSeq(p, 1, n)) = IF 1 <= n THEN n - 1 + 1 ELSE 0
      /\ \A i \in 1..(n - 1 + 1) : SubSeq(p, 1, n)[i] = p[1 + i - 1]
  BY <1>1, <1>2, SubSeqProperties
<1>4. ASSUME NEW i \in 1..n PROVE SubSeq(p, 1, n)[i] = p[i]
  <2>1. i \in 1..(n - 1 + 1) /\ 1 + i - 1 = i
    BY <1>2
  <2> QED BY <1>3, <2>1
<1> QED BY <1>2, <1>3, <1>4

(* A prefix of a prefix is a prefix.                                       *)
LEMMA PrefixOfPrefix ==
    ASSUME NEW S, NEW p \in Seq(S), NEW n \in 0..Len(p), NEW m \in 0..n
    PROVE  SubSeq(SubSeq(p, 1, n), 1, m) = SubSeq(p, 1, m)
<1>1. m \in 0..Len(p) /\ n \in Nat /\ m \in Nat
  BY LenProperties
<1>2. /\ SubSeq(p, 1, n) \in Seq(S) /\ Len(SubSeq(p, 1, n)) = n
      /\ \A i \in 1..n : SubSeq(p, 1, n)[i] = p[i]
  BY Prefix
<1>3. /\ SubSeq(p, 1, m) \in Seq(S) /\ Len(SubSeq(p, 1, m)) = m
      /\ \A i \in 1..m : SubSeq(p, 1, m)[i] = p[i]
  BY <1>1, Prefix
<1> DEFINE q == SubSeq(p, 1, n)
<1> HIDE DEF q
<1>4. /\ SubSeq(q, 1, m) \in Seq(S) /\ Len(SubSeq(q, 1, m)) = m
      /\ \A i \in 1..m : SubSeq(q, 1, m)[i] = q[i]
  BY <1>1, <1>2, Prefix DEF q
<1>5. \A i \in 1..m : SubSeq(q, 1, m)[i] = SubSeq(p, 1, m)[i]
  BY <1>1, <1>2, <1>3, <1>4 DEF q
<1> QED BY <1>3, <1>4, <1>5, SeqEqual DEF q

(* A child has the prefixes of its parent.                                 *)
LEMMA PrefixOfChild ==
    ASSUME NEW S, NEW p \in Seq(S), NEW e \in S, NEW n \in 0..Len(p)
    PROVE  SubSeq(Append(p, e), 1, n) = SubSeq(p, 1, n)
<1>1. /\ Append(p, e) \in Seq(S) /\ Len(Append(p, e)) = Len(p) + 1
      /\ \A i \in 1..Len(p) : Append(p, e)[i] = p[i]
  BY AppendProperties
<1> DEFINE q == Append(p, e)
<1> HIDE DEF q
<1>2. Len(p) \in Nat /\ n \in Nat /\ n \in 0..Len(q)
  BY <1>1, LenProperties DEF q
<1>3. /\ SubSeq(q, 1, n) \in Seq(S) /\ Len(SubSeq(q, 1, n)) = n
      /\ \A i \in 1..n : SubSeq(q, 1, n)[i] = q[i]
  BY <1>1, <1>2, Prefix DEF q
<1>4. /\ SubSeq(p, 1, n) \in Seq(S) /\ Len(SubSeq(p, 1, n)) = n
      /\ \A i \in 1..n : SubSeq(p, 1, n)[i] = p[i]
  BY Prefix
<1>5. \A i \in 1..n : SubSeq(q, 1, n)[i] = SubSeq(p, 1, n)[i]
  BY <1>1, <1>2, <1>3, <1>4 DEF q
<1> QED BY <1>3, <1>4, <1>5, SeqEqual DEF q

(* A path that is not empty is a child of its parent.                      *)
LEMMA ParentOf ==
    ASSUME NEW S, NEW p \in Seq(S), p # <<>>
    PROVE  /\ Len(p) \in Nat /\ Len(p) >= 1
           /\ Parent(p) \in Seq(S) /\ Len(Parent(p)) = Len(p) - 1
           /\ p[Len(p)] \in S /\ p = Append(Parent(p), p[Len(p)])
           /\ Under(Parent(p), p)
<1>1. PICK s \in Seq(S), e \in S : p = Append(s, e)
  BY SequenceEmptyOrAppend
<1>2. /\ Len(p) = Len(s) + 1 /\ Len(s) \in Nat /\ p[Len(p)] = e
      /\ Len(s) \in 0..Len(s)
  BY <1>1, AppendProperties, LenProperties
<1>3. SubSeq(p, 1, Len(s)) = s
  BY <1>1, <1>2, PrefixOfChild, SubSeqFull
<1>4. Len(p) - 1 = Len(s)
  BY <1>2
<1>5. Parent(p) = s
  BY <1>3, <1>4 DEF Parent
<1> QED BY <1>1, <1>2, <1>3, <1>5 DEF Under

(* A path with one more step is a child of the path.                       *)
LEMMA ChildOf ==
    ASSUME NEW S, NEW p \in Seq(S), NEW e \in S
    PROVE  /\ Append(p, e) \in Seq(S) /\ Append(p, e) # <<>>
           /\ Len(Append(p, e)) = Len(p) + 1 /\ Append(p, e)[Len(p) + 1] = e
           /\ Parent(Append(p, e)) = p
<1>1. /\ Append(p, e) \in Seq(S) /\ Append(p, e) # <<>>
      /\ Len(Append(p, e)) = Len(p) + 1 /\ Append(p, e)[Len(p) + 1] = e
  BY AppendProperties
<1>2. Len(p) \in 0..Len(p) /\ (Len(p) + 1) - 1 = Len(p)
  BY LenProperties
<1>3. SubSeq(Append(p, e), 1, Len(p)) = p
  BY <1>2, PrefixOfChild, SubSeqFull
<1> QED BY <1>1, <1>2, <1>3 DEF Parent

(* Being under a path is an order, and two paths above one are in order.   *)
LEMMA UnderItself ==
    ASSUME NEW S, NEW p \in Seq(S)
    PROVE  Under(p, p)
<1>1. Len(p) \in Nat
  BY LenProperties
<1> QED BY <1>1, SubSeqFull DEF Under

(* ... and what is under a path is under all paths above it.               *)
LEMMA UnderUnder ==
    ASSUME NEW S, NEW p \in Seq(S), NEW q \in Seq(S), NEW r \in Seq(S),
           Under(q, p), Under(r, q)
    PROVE  Under(r, p)
<1>1. Len(p) \in Nat /\ Len(q) \in Nat /\ Len(r) \in Nat
  BY LenProperties
<1>2. /\ Len(r) <= Len(p) /\ Len(q) \in 0..Len(p) /\ Len(r) \in 0..Len(q)
      /\ SubSeq(p, 1, Len(q)) = q /\ SubSeq(q, 1, Len(r)) = r
  BY <1>1 DEF Under
<1>3. SubSeq(SubSeq(p, 1, Len(q)), 1, Len(r)) = SubSeq(p, 1, Len(r))
  BY <1>2, PrefixOfPrefix
<1> QED BY <1>2, <1>3 DEF Under

(* Of two paths above one, the shorter is above the longer.                *)
LEMMA UnderBoth ==
    ASSUME NEW S, NEW p \in Seq(S), NEW q \in Seq(S), NEW r \in Seq(S),
           Under(q, p), Under(r, p), Len(r) <= Len(q)
    PROVE  Under(r, q)
<1>1. Len(p) \in Nat /\ Len(q) \in Nat /\ Len(r) \in Nat
  BY LenProperties
<1>2. /\ Len(q) \in 0..Len(p) /\ Len(r) \in 0..Len(q)
      /\ SubSeq(p, 1, Len(q)) = q /\ SubSeq(p, 1, Len(r)) = r
  BY <1>1 DEF Under
<1>3. SubSeq(SubSeq(p, 1, Len(q)), 1, Len(r)) = SubSeq(p, 1, Len(r))
  BY <1>2, PrefixOfPrefix
<1> QED BY <1>2, <1>3 DEF Under

(* A path is under no other path of its length.                            *)
LEMMA UnderSame ==
    ASSUME NEW S, NEW p \in Seq(S), NEW q \in Seq(S), Under(q, p), Len(p) <= Len(q)
    PROVE  q = p
<1>1. Len(p) \in Nat /\ Len(q) \in Nat
  BY LenProperties
<1>2. Len(q) = Len(p) /\ SubSeq(p, 1, Len(q)) = q
  BY <1>1 DEF Under
<1> QED BY <1>2, SubSeqFull

-----------------------------------------------------------------------------
(* Rows that are put together one behind the other.                        *)
Has(s, x) == \E i \in DOMAIN s : s[i] = x

(* The joined row has the elements of both, each once if they differ.      *)
LEMMA Joined ==
    ASSUME NEW S, NEW s \in Seq(S), NEW t \in Seq(S)
    PROVE  /\ s \o t \in Seq(S)
           /\ \A x : Has(s \o t, x) <=> Has(s, x) \/ Has(t, x)
           /\ IsInjective(s) /\ IsInjective(t) /\ (\A x : ~(Has(s, x) /\ Has(t, x)))
                  => IsInjective(s \o t)
<1> DEFINE r == s \o t
<1>1. /\ r \in Seq(S) /\ Len(r) = Len(s) + Len(t)
      /\ \A i \in 1..Len(s) + Len(t) : r[i] = IF i <= Len(s) THEN s[i] ELSE t[i - Len(s)]
  BY ConcatProperties
<1>2. /\ DOMAIN s = 1..Len(s) /\ DOMAIN t = 1..Len(t) /\ DOMAIN r = 1..(Len(s) + Len(t))
      /\ Len(s) \in Nat /\ Len(t) \in Nat
  <2>1. DOMAIN r = 1..Len(r)
    <3> HIDE DEF r
    <3> QED BY <1>1, LenProperties
  <2> QED BY <1>1, <2>1, LenProperties
<1> HIDE DEF r
<1>3. ASSUME NEW i \in DOMAIN s PROVE i \in DOMAIN r /\ r[i] = s[i]
  BY <1>1, <1>2
<1>4. ASSUME NEW i \in DOMAIN t PROVE i + Len(s) \in DOMAIN r /\ r[i + Len(s)] = t[i]
  <2>1. i + Len(s) \in 1..Len(s) + Len(t) /\ ~(i + Len(s) <= Len(s)) /\ (i + Len(s)) - Len(s) = i
    BY <1>2
  <2> QED BY <1>1, <1>2, <2>1
<1>5. ASSUME NEW i \in DOMAIN r
      PROVE  \/ i \in DOMAIN s /\ r[i] = s[i]
             \/ i > Len(s) /\ i - Len(s) \in DOMAIN t /\ r[i] = t[i - Len(s)]
  BY <1>1, <1>2
<1>6. ASSUME NEW x PROVE Has(r, x) <=> Has(s, x) \/ Has(t, x)
  <2>1. ASSUME Has(r, x) PROVE Has(s, x) \/ Has(t, x)
    BY <2>1, <1>5 DEF Has
  <2>2. ASSUME Has(s, x) PROVE Has(r, x)
    BY <2>2, <1>3 DEF Has
  <2>3. ASSUME Has(t, x) PROVE Has(r, x)
    BY <2>3, <1>4 DEF Has
  <2> QED BY <2>1, <2>2, <2>3
<1>7. ASSUME IsInjective(s), IsInjective(t), \A x : ~(Has(s, x) /\ Has(t, x)),
             NEW i \in DOMAIN r, NEW j \in DOMAIN r, r[i] = r[j]
      PROVE  i = j
  <2>1. i \in Nat /\ j \in Nat
    BY <1>2
  <2>2. CASE i \in DOMAIN s /\ r[i] = s[i]
    <3>1. Has(s, r[j])
      BY <1>7, <2>2 DEF Has
    <3>2. ASSUME j - Len(s) \in DOMAIN t, r[j] = t[j - Len(s)] PROVE FALSE
      BY <1>7, <3>1, <3>2 DEF Has
    <3>3. j \in DOMAIN s /\ r[j] = s[j]
      BY <1>5, <3>2
    <3> QED BY <1>7, <2>2, <3>3 DEF IsInjective
  <2>3. CASE i > Len(s) /\ i - Len(s) \in DOMAIN t /\ r[i] = t[i - Len(s)]
    <3>1. Has(t, r[j])
      BY <1>7, <2>3 DEF Has
    <3>2. ASSUME j \in DOMAIN s, r[j] = s[j] PROVE FALSE
      BY <1>7, <3>1, <3>2 DEF Has
    <3>3. j > Len(s) /\ j - Len(s) \in DOMAIN t /\ r[j] = t[j - Len(s)]
      BY <1>5, <3>2
    <3>4. i - Len(s) = j - Len(s)
      BY <1>7, <2>3, <3>3 DEF IsInjective
    <3> QED BY <1>2, <2>1, <3>4
  <2> QED BY <1>5, <2>2, <2>3
<1>8. IsInjective(s) /\ IsInjective(t) /\ (\A x : ~(Has(s, x) /\ Has(t, x)))
        => IsInjective(r)
  BY <1>7 DEF IsInjective
<1> QED BY <1>1, <1>6, <1>8 DEF r

(* The function within FlattenSeq, up to some row.                         *)
FlattenedBy(f, rows, n) ==
    f = [i \in 1..n |-> IF i = 1 THEN rows[i] ELSE f[i - 1] \o rows[i]]

(* There is such a function for every number of rows.                      *)
LEMMA FlatteningExists ==
    ASSUME NEW rows, NEW n \in Nat
    PROVE  \E f : FlattenedBy(f, rows, n)
<1> DEFINE Missing == {k \in Nat : ~\E f : FlattenedBy(f, rows, k)}
<1> SUFFICES ASSUME Missing # {} PROVE FALSE
  OBVIOUS
<1>1. PICK k \in Missing : \A l \in Missing : k <= l
  BY LeastNatural
<1>2. k \in Nat /\ ~\E f : FlattenedBy(f, rows, k)
  OBVIOUS
<1>3. k # 0
  <2> SUFFICES ASSUME k = 0 PROVE FALSE
    OBVIOUS
  <2> DEFINE e == [i \in 1..0 |-> rows]
  <2>1. e = [i \in 1..0 |-> IF i = 1 THEN rows[i] ELSE e[i - 1] \o rows[i]]
    <3>1. 1..0 = {}
      OBVIOUS
    <3> QED BY <3>1
  <2>2. FlattenedBy(e, rows, 0)
    <3> HIDE DEF e
    <3> QED BY <2>1 DEF FlattenedBy
  <2> QED BY <1>2, <2>2
<1>4. k - 1 \in Nat /\ k - 1 \notin Missing
  BY <1>1, <1>2, <1>3
<1>5. PICK g : FlattenedBy(g, rows, k - 1)
  BY <1>4
<1> DEFINE h == [i \in 1..k |-> IF i < k THEN g[i]
                                ELSE IF k = 1 THEN rows[1] ELSE g[k - 1] \o rows[k]]
<1>6. ASSUME NEW i \in 1..k
      PROVE  h[i] = IF i = 1 THEN rows[i] ELSE h[i - 1] \o rows[i]
  <2>1. CASE i < k
    <3>1. i \in 1..(k - 1) /\ (i # 1 => i - 1 \in 1..k /\ i - 1 < k)
      BY <1>2, <2>1
    <3>2. g[i] = IF i = 1 THEN rows[i] ELSE g[i - 1] \o rows[i]
      BY <1>5, <3>1 DEF FlattenedBy
    <3>3. h[i] = g[i] /\ (i # 1 => h[i - 1] = g[i - 1])
      BY <2>1, <3>1
    <3> HIDE DEF h
    <3> QED BY <3>2, <3>3
  <2>2. CASE i = k /\ k = 1
    BY <1>2, <2>2
  <2>3. CASE i = k /\ k # 1
    <3>1. k \in 1..k /\ ~(k < k) /\ k - 1 \in 1..k /\ k - 1 < k
      BY <1>2, <2>3
    <3>2. h[k] = g[k - 1] \o rows[k] /\ h[k - 1] = g[k - 1]
      BY <2>3, <3>1
    <3> HIDE DEF h
    <3> QED BY <2>3, <3>2
  <2>4. i < k \/ i = k
    BY <1>2
  <2> QED BY <2>1, <2>2, <2>3, <2>4
<1>7. h = [i \in 1..k |-> h[i]]
  OBVIOUS
<1> HIDE DEF h
<1>8. FlattenedBy(h, rows, k)
  BY <1>6, <1>7 DEF FlattenedBy
<1> QED BY <1>2, <1>8

(* FlattenSeq() has the elements of all rows, each once if they differ.    *)
LEMMA Flattened ==
    ASSUME NEW S, NEW rows \in Seq(Seq(S)),
           \A k \in DOMAIN rows : IsInjective(rows[k]),
           \A k, l \in DOMAIN rows : \A x : Has(rows[k], x) /\ Has(rows[l], x) => k = l
    PROVE  /\ FlattenSeq(rows) \in Seq(S)
           /\ IsInjective(FlattenSeq(rows))
           /\ \A x : Has(FlattenSeq(rows), x) <=> \E k \in DOMAIN rows : Has(rows[k], x)
<1> DEFINE n == Len(rows)
<1>1. n \in Nat /\ DOMAIN rows = 1..n /\ \A k \in 1..n : rows[k] \in Seq(S)
  BY LenProperties
<1>2. CASE n = 0
  <2>1. rows = <<>> /\ FlattenSeq(rows) = <<>>
    BY <1>2, EmptySeq DEF FlattenSeq
  <2>2. DOMAIN rows = {} /\ <<>> \in Seq(S)
    BY <1>1, <1>2, EmptySeq
  <2> QED BY <2>1, <2>2 DEF IsInjective, Has
<1>3. CASE n # 0
  <2> DEFINE f == CHOOSE f : FlattenedBy(f, rows, n)
  <2>1. FlattenSeq(rows) = f[n]
    BY <1>3 DEF FlattenSeq, FlattenedBy
  <2>2. FlattenedBy(f, rows, n)
    BY <1>1, FlatteningExists
  <2> HIDE DEF f, n
  <2>3. \A i \in 1..n : f[i] = IF i = 1 THEN rows[i] ELSE f[i - 1] \o rows[i]
    BY <2>2 DEF FlattenedBy
  <2> DEFINE Good(i) == /\ f[i] \in Seq(S)
                        /\ IsInjective(f[i])
                        /\ \A x : Has(f[i], x) <=> \E k \in 1..i : Has(rows[k], x)
             Bad == {i \in 1..n : ~Good(i)}
  <2>4. Bad = {}
    <3> SUFFICES ASSUME Bad # {} PROVE FALSE
      OBVIOUS
    <3>1. Bad \in SUBSET Nat
      BY <1>1
    <3>2. PICK i \in Bad : \A j \in Bad : i <= j
      <4> HIDE DEF Bad
      <4> QED BY <3>1, LeastNatural
    <3>3. i \in 1..n /\ ~Good(i) /\ i \in Nat
      BY <1>1
    <3>4. CASE i = 1
      <4>1. f[1] = rows[1] /\ rows[1] \in Seq(S) /\ IsInjective(rows[1])
        BY <1>1, <2>3, <3>3, <3>4
      <4>2. 1..1 = {1}
        OBVIOUS
      <4>3. Good(1)
        BY <4>1, <4>2
      <4> QED BY <3>3, <3>4, <4>3
    <3>5. CASE i # 1
      <4>1. i - 1 \in 1..n /\ ~(i <= i - 1) /\ 1..i = 1..(i - 1) \cup {i} /\ i \notin 1..(i - 1)
        BY <1>1, <3>3, <3>5
      <4>2. Good(i - 1)
        BY <3>2, <4>1
      <4>3. rows[i] \in Seq(S) /\ IsInjective(rows[i]) /\ f[i] = f[i - 1] \o rows[i]
        BY <1>1, <2>3, <3>3, <3>5
      <4>4. \A x : ~(Has(f[i - 1], x) /\ Has(rows[i], x))
        <5> SUFFICES ASSUME NEW x, Has(f[i - 1], x), Has(rows[i], x) PROVE FALSE
          OBVIOUS
        <5>1. PICK k \in 1..(i - 1) : Has(rows[k], x)
          BY <4>2
        <5>2. k \in DOMAIN rows /\ i \in DOMAIN rows /\ k # i
          BY <1>1, <3>3, <4>1, <5>1
        <5> QED BY <5>1, <5>2
      <4> DEFINE s == f[i - 1]
                 t == rows[i]
      <4>5. /\ s \in Seq(S) /\ IsInjective(s)
            /\ \A x : Has(s, x) <=> \E k \in 1..(i - 1) : Has(rows[k], x)
        BY <4>2
      <4>6. f[i] = s \o t /\ t \in Seq(S) /\ IsInjective(t) /\ t = rows[i]
            /\ \A x : ~(Has(s, x) /\ Has(t, x))
        BY <4>3, <4>4
      <4> HIDE DEF s, t
      <4>7. f[i] \in Seq(S) /\ IsInjective(f[i]) /\ \A x : Has(f[i], x) <=> Has(s, x) \/ Has(t, x)
        BY <4>5, <4>6, Joined
      <4>8. Good(i)
        BY <4>1, <4>5, <4>6, <4>7
      <4> QED BY <3>3, <4>8
    <3> QED BY <3>4, <3>5
  <2>5. Good(n)
    <3>1. n \in 1..n /\ n \notin Bad
      <4>1. n \in 1..n
        BY <1>1, <1>3
      <4> HIDE DEF Bad
      <4> QED BY <2>4, <4>1
    <3> HIDE DEF Good
    <3> QED BY <3>1
  <2> QED BY <1>1, <2>1, <2>5
<1> QED BY <1>2, <1>3

-----------------------------------------------------------------------------
(* Rows of different names.                                                *)
Row(s, names) ==
    /\ s \in Seq(names) /\ IsInjective(s)
    /\ \A x : Has(s, x) <=> x \in names

(* A row grows by a name it does not have.                                 *)
LEMMA RowAppended ==
    ASSUME NEW s, NEW names, NEW a, Row(s, names), a \notin names
    PROVE  Row(Append(s, a), names \cup {a})
<1> DEFINE grown == names \cup {a}
           t == <<a>>
<1>1. s \in Seq(names) /\ IsInjective(s) /\ (\A x : Has(s, x) <=> x \in names)
  BY DEF Row
<1>2. s \in Seq(grown)
  BY <1>1, SeqMonotonic
<1>3. t \in Seq(grown)
  <2>1. <<>> \in Seq(grown) /\ a \in grown /\ t = Append(<<>>, a)
    OBVIOUS
  <2> QED BY <2>1, AppendProperties
<1>4. IsInjective(t) /\ (\A x : Has(t, x) <=> x = a)
  <2>1. DOMAIN <<a>> = {1} /\ <<a>>[1] = a
    OBVIOUS
  <2>2. IsInjective(<<a>>)
    BY <2>1 DEF IsInjective
  <2>3. \A x : Has(<<a>>, x) <=> x = a
    BY <2>1 DEF Has
  <2> QED BY <2>2, <2>3
<1>5. Append(s, a) = s \o t
  BY <1>1, AppendIsConcat
<1> HIDE DEF t
<1>6. \A x : x \in grown <=> x \in names \/ x = a
  OBVIOUS
<1> HIDE DEF grown
<1>7. /\ s \o t \in Seq(grown)
      /\ \A x : Has(s \o t, x) <=> Has(s, x) \/ Has(t, x)
      /\ IsInjective(s) /\ IsInjective(t) /\ (\A x : ~(Has(s, x) /\ Has(t, x)))
             => IsInjective(s \o t)
  BY <1>2, <1>3, Joined
<1>8. IsInjective(s \o t)
  BY <1>1, <1>4, <1>7
<1>9. \A x : Has(s \o t, x) <=> x \in grown
  BY <1>1, <1>4, <1>6, <1>7
<1>10. Row(Append(s, a), grown)
  BY <1>5, <1>7, <1>8, <1>9 DEF Row
<1> QED BY <1>10 DEF grown

(* The rows of up to seven different names, which is what the classes      *)
(* need.                                                                   *)
LEMMA Row0 == Row(<<>>, {})
BY DEF Row, IsInjective, Has

LEMMA Row1 ==
    ASSUME NEW a
    PROVE  Row(<<a>>, {a})
<1> DEFINE s == <<>>
           names == {}
<1>1. Row(s, names)
  BY Row0
<1>2. a \notin names
  OBVIOUS
<1>3. <<a>> = Append(s, a)
  OBVIOUS
<1>4. {a} = names \cup {a}
  OBVIOUS
<1> HIDE DEF s, names
<1>5. Row(Append(s, a), names \cup {a})
  BY <1>1, <1>2, RowAppended
<1> QED BY <1>3, <1>4, <1>5

LEMMA Row2 ==
    ASSUME NEW a, NEW b,
           b # a
    PROVE  Row(<<a, b>>, {a, b})
<1> DEFINE s == <<a>>
           names == {a}
<1>1. Row(s, names)
  BY Row1
<1>2. b \notin names
  OBVIOUS
<1>3. <<a, b>> = Append(s, b)
  OBVIOUS
<1>4. {a, b} = names \cup {b}
  OBVIOUS
<1> HIDE DEF s, names
<1>5. Row(Append(s, b), names \cup {b})
  BY <1>1, <1>2, RowAppended
<1> QED BY <1>3, <1>4, <1>5

LEMMA Row3 ==
    ASSUME NEW a, NEW b, NEW d,
           b # a,
           d # a, d # b
    PROVE  Row(<<a, b, d>>, {a, b, d})
<1> DEFINE s == <<a, b>>
           names == {a, b}
<1>1. Row(s, names)
  BY Row2
<1>2. d \notin names
  OBVIOUS
<1>3. <<a, b, d>> = Append(s, d)
  OBVIOUS
<1>4. {a, b, d} = names \cup {d}
  OBVIOUS
<1> HIDE DEF s, names
<1>5. Row(Append(s, d), names \cup {d})
  BY <1>1, <1>2, RowAppended
<1> QED BY <1>3, <1>4, <1>5

LEMMA Row4 ==
    ASSUME NEW a, NEW b, NEW d,
           NEW e,
           b # a,
           d # a, d # b,
           e # a, e # b, e # d
    PROVE  Row(<<a, b, d, e>>, {a, b, d, e})
<1> DEFINE s == <<a, b, d>>
           names == {a, b, d}
<1>1. Row(s, names)
  BY Row3
<1>2. e \notin names
  OBVIOUS
<1>3. <<a, b, d, e>> = Append(s, e)
  OBVIOUS
<1>4. {a, b, d, e} = names \cup {e}
  OBVIOUS
<1> HIDE DEF s, names
<1>5. Row(Append(s, e), names \cup {e})
  BY <1>1, <1>2, RowAppended
<1> QED BY <1>3, <1>4, <1>5

LEMMA Row5 ==
    ASSUME NEW a, NEW b, NEW d,
           NEW e, NEW f,
           b # a,
           d # a, d # b,
           e # a, e # b, e # d,
           f # a, f # b, f # d, f # e
    PROVE  Row(<<a, b, d, e, f>>, {a, b, d, e, f})
<1> DEFINE s == <<a, b, d, e>>
           names == {a, b, d, e}
<1>1. Row(s, names)
  BY Row4
<1>2. f \notin names
  OBVIOUS
<1>3. <<a, b, d, e, f>> = Append(s, f)
  OBVIOUS
<1>4. {a, b, d, e, f} = names \cup {f}
  OBVIOUS
<1> HIDE DEF s, names
<1>5. Row(Append(s, f), names \cup {f})
  BY <1>1, <1>2, RowAppended
<1> QED BY <1>3, <1>4, <1>5

LEMMA Row6 ==
    ASSUME NEW a, NEW b, NEW d,
           NEW e, NEW f, NEW g,
           b # a,
           d # a, d # b,
           e # a, e # b, e # d,
           f # a, f # b, f # d, f # e,
           g # a, g # b, g # d, g # e, g # f
    PROVE  Row(<<a, b, d, e, f, g>>, {a, b, d, e, f, g})
<1> DEFINE s == <<a, b, d, e, f>>
           names == {a, b, d, e, f}
<1>1. Row(s, names)
  BY Row5
<1>2. g \notin names
  OBVIOUS
<1>3. <<a, b, d, e, f, g>> = Append(s, g)
  OBVIOUS
<1>4. {a, b, d, e, f, g} = names \cup {g}
  OBVIOUS
<1> HIDE DEF s, names
<1>5. Row(Append(s, g), names \cup {g})
  BY <1>1, <1>2, RowAppended
<1> QED BY <1>3, <1>4, <1>5

LEMMA Row7 ==
    ASSUME NEW a, NEW b, NEW d,
           NEW e, NEW f, NEW g, NEW h,
           b # a,
           d # a, d # b,
           e # a, e # b, e # d,
           f # a, f # b, f # d, f # e,
           g # a, g # b, g # d, g # e, g # f,
           h # a, h # b, h # d, h # e, h # f, h # g
    PROVE  Row(<<a, b, d, e, f, g, h>>, {a, b, d, e, f, g, h})
<1> DEFINE s == <<a, b, d, e, f, g>>
           names == {a, b, d, e, f, g}
<1>1. Row(s, names)
  BY Row6
<1>2. h \notin names
  OBVIOUS
<1>3. <<a, b, d, e, f, g, h>> = Append(s, h)
  OBVIOUS
<1>4. {a, b, d, e, f, g, h} = names \cup {h}
  OBVIOUS
<1> HIDE DEF s, names
<1>5. Row(Append(s, h), names \cup {h})
  BY <1>1, <1>2, RowAppended
<1> QED BY <1>3, <1>4, <1>5

-----------------------------------------------------------------------------
(* Lists of elements without nodes, which no handler goes through.         *)
Barren ==
    {<<"grant_privilege_statement", "actions">>,
     <<"revoke_privilege_statement", "actions">>}

(* A handler goes into every operand but those, once.                      *)
VisitExact(c) ==
    Row(Visits[c], {m \in OperandNames(c) : <<c, m>> \notin Promise!NotCounted \cup Barren})

(* Copies take over every member, and comparison all but those ignored.    *)
CopyExact(c) ==
    /\ OperandNames(c) \cup Data(c) \subseteq Copied(c)
    /\ \A m \in OperandNames(c) \cup Data(c) :
           m \in Compared(c) <=> <<c, m>> \notin Ignored
    /\ OperandNames(c) \cap Data(c) = {}

(* At least one child at most is asked of an operand.                      *)
LeastExact(c) == \A f \in Operands(c) : f.least \in {0, 1}

Exact(c) == VisitExact(c) /\ CopyExact(c) /\ LeastExact(c)

(* Every class is of one group of handlers, and goes into the operands the *)
(* group lists for it.                                                     *)
LEMMA GroupsOfClasses ==
    /\ DOMAIN Class = DOMAIN StatementVisits \cup DOMAIN ElementVisits
           \cup DOMAIN QueryVisits \cup DOMAIN TableVisits
           \cup DOMAIN ScalarVisits \cup DOMAIN InvocationVisits
           \cup DOMAIN LeafVisits \cup DOMAIN ClauseVisits
    /\ \A c \in DOMAIN StatementVisits : Visits[c] = StatementVisits[c]
    /\ \A c \in DOMAIN ElementVisits : Visits[c] = ElementVisits[c]
    /\ \A c \in DOMAIN QueryVisits : Visits[c] = QueryVisits[c]
    /\ \A c \in DOMAIN TableVisits : Visits[c] = TableVisits[c]
    /\ \A c \in DOMAIN ScalarVisits : Visits[c] = ScalarVisits[c]
    /\ \A c \in DOMAIN InvocationVisits : Visits[c] = InvocationVisits[c]
    /\ \A c \in DOMAIN LeafVisits : Visits[c] = LeafVisits[c]
    /\ \A c \in DOMAIN ClauseVisits : Visits[c] = ClauseVisits[c]
<1>1. DOMAIN Class = DOMAIN StatementVisits \cup DOMAIN ElementVisits
         \cup DOMAIN QueryVisits \cup DOMAIN TableVisits
         \cup DOMAIN ScalarVisits \cup DOMAIN InvocationVisits
         \cup DOMAIN LeafVisits \cup DOMAIN ClauseVisits
  BY DEF Class, StatementVisits, ElementVisits, QueryVisits, TableVisits,
         ScalarVisits, InvocationVisits, LeafVisits, ClauseVisits
<1>2. DOMAIN StatementVisits \cap (DOMAIN ElementVisits \cup DOMAIN QueryVisits \cup DOMAIN TableVisits
         \cup DOMAIN ScalarVisits \cup DOMAIN InvocationVisits
         \cup DOMAIN LeafVisits \cup DOMAIN ClauseVisits) = {}
  BY DEF StatementVisits, ElementVisits, QueryVisits, TableVisits,
         ScalarVisits, InvocationVisits, LeafVisits, ClauseVisits
<1>3. DOMAIN ElementVisits \cap (DOMAIN StatementVisits \cup DOMAIN QueryVisits \cup DOMAIN TableVisits
         \cup DOMAIN ScalarVisits \cup DOMAIN InvocationVisits
         \cup DOMAIN LeafVisits \cup DOMAIN ClauseVisits) = {}
  BY DEF StatementVisits, ElementVisits, QueryVisits, TableVisits,
         ScalarVisits, InvocationVisits, LeafVisits, ClauseVisits
<1>4. DOMAIN QueryVisits \cap (DOMAIN StatementVisits \cup DOMAIN ElementVisits \cup DOMAIN TableVisits
         \cup DOMAIN ScalarVisits \cup DOMAIN InvocationVisits
         \cup DOMAIN LeafVisits \cup DOMAIN ClauseVisits) = {}
  BY DEF StatementVisits, ElementVisits, QueryVisits, TableVisits,
         ScalarVisits, InvocationVisits, LeafVisits, ClauseVisits
<1>5. DOMAIN TableVisits \cap (DOMAIN StatementVisits \cup DOMAIN ElementVisits \cup DOMAIN QueryVisits
         \cup DOMAIN ScalarVisits \cup DOMAIN InvocationVisits
         \cup DOMAIN LeafVisits \cup DOMAIN ClauseVisits) = {}
  BY DEF StatementVisits, ElementVisits, QueryVisits, TableVisits,
         ScalarVisits, InvocationVisits, LeafVisits, ClauseVisits
<1>6. DOMAIN ScalarVisits \cap (DOMAIN StatementVisits \cup DOMAIN ElementVisits \cup DOMAIN QueryVisits
         \cup DOMAIN TableVisits \cup DOMAIN InvocationVisits
         \cup DOMAIN LeafVisits \cup DOMAIN ClauseVisits) = {}
  BY DEF StatementVisits, ElementVisits, QueryVisits, TableVisits,
         ScalarVisits, InvocationVisits, LeafVisits, ClauseVisits
<1>7. DOMAIN InvocationVisits \cap (DOMAIN StatementVisits \cup DOMAIN ElementVisits \cup DOMAIN QueryVisits
         \cup DOMAIN TableVisits \cup DOMAIN ScalarVisits
         \cup DOMAIN LeafVisits \cup DOMAIN ClauseVisits) = {}
  BY DEF StatementVisits, ElementVisits, QueryVisits, TableVisits,
         ScalarVisits, InvocationVisits, LeafVisits, ClauseVisits
<1>8. DOMAIN LeafVisits \cap (DOMAIN StatementVisits \cup DOMAIN ElementVisits \cup DOMAIN QueryVisits
         \cup DOMAIN TableVisits \cup DOMAIN ScalarVisits
         \cup DOMAIN InvocationVisits \cup DOMAIN ClauseVisits) = {}
  BY DEF StatementVisits, ElementVisits, QueryVisits, TableVisits,
         ScalarVisits, InvocationVisits, LeafVisits, ClauseVisits
<1>9. DOMAIN ClauseVisits \cap (DOMAIN StatementVisits \cup DOMAIN ElementVisits \cup DOMAIN QueryVisits
         \cup DOMAIN TableVisits \cup DOMAIN ScalarVisits
         \cup DOMAIN InvocationVisits \cup DOMAIN LeafVisits) = {}
  BY DEF StatementVisits, ElementVisits, QueryVisits, TableVisits,
         ScalarVisits, InvocationVisits, LeafVisits, ClauseVisits
<1>10. \A c \in DOMAIN StatementVisits : Visits[c] = StatementVisits[c]
  BY <1>1, <1>2 DEF Visits
<1>11. \A c \in DOMAIN ElementVisits : Visits[c] = ElementVisits[c]
  BY <1>1, <1>3 DEF Visits
<1>12. \A c \in DOMAIN QueryVisits : Visits[c] = QueryVisits[c]
  BY <1>1, <1>4 DEF Visits
<1>13. \A c \in DOMAIN TableVisits : Visits[c] = TableVisits[c]
  BY <1>1, <1>5 DEF Visits
<1>14. \A c \in DOMAIN ScalarVisits : Visits[c] = ScalarVisits[c]
  BY <1>1, <1>6 DEF Visits
<1>15. \A c \in DOMAIN InvocationVisits : Visits[c] = InvocationVisits[c]
  BY <1>1, <1>7 DEF Visits
<1>16. \A c \in DOMAIN LeafVisits : Visits[c] = LeafVisits[c]
  BY <1>1, <1>8 DEF Visits
<1>17. \A c \in DOMAIN ClauseVisits : Visits[c] = ClauseVisits[c]
  BY <1>1, <1>9 DEF Visits
<1> QED BY <1>1, <1>10, <1>11, <1>12, <1>13, <1>14, <1>15, <1>16, <1>17

(* No family holds both classes that are elements within a parent and      *)
(* others.                                                                 *)
LEMMA FamiliesOutOfLine ==
    /\ Names \cap Inline = {} /\ Simple \cap Inline = {}
    /\ Types \cap Inline = {} /\ Scalars \cap Inline = {}
    /\ Queries \cap Inline = {} /\ Constraints \cap Inline = {}
    /\ GroupingElements \cap Inline = {}
BY DEF Names, Simple, Types, Scalars, Queries, QueryOperands, Constraints,
       GroupingElements, Inline

(* The statements, the compilation unit and the empty statement, class by  *)
(* class.                                                                  *)
LEMMA StatementClasses ==
    ASSUME NEW c \in DOMAIN StatementVisits
    PROVE  Exact(c)
<1> USE DEF One, Optional, Many, Some, Datum
<1>1. Exact("compilation_unit")
  <2>1. /\ "compilation_unit" \in DOMAIN Class
        /\ Visits["compilation_unit"] = <<"statements">>
    BY GroupsOfClasses DEF StatementVisits
  <2>2. /\ Class["compilation_unit"] = compilation_unit
        /\ MembersOf["compilation_unit"] = compilation_unit_members
    BY DEF Class, MembersOf
  <2>3. /\ OperandNames("compilation_unit") = {"statements"}
        /\ Data("compilation_unit") = {"comments", "document"}
    BY <2>2 DEF OperandNames, Data, Operands, Fields, compilation_unit
  <2>4. VisitExact("compilation_unit")
    <3>1. {m \in OperandNames("compilation_unit") :
              <<"compilation_unit", m>> \notin Promise!NotCounted \cup Barren}
             = {"statements"}
      BY <2>3 DEF Promise!NotCounted, Barren
    <3>2. Row(<<"statements">>, {"statements"})
      BY Row1
    <3> QED BY <2>1, <3>1, <3>2 DEF VisitExact
  <2>5. CopyExact("compilation_unit")
    BY <2>1, <2>2, <2>3
       DEF CopyExact, Copied, Compared, Ignored, Supplemental, Forgotten,
           MembersBut, compilation_unit_members
  <2>6. LeastExact("compilation_unit")
    BY <2>2 DEF LeastExact, Operands, Fields, compilation_unit
  <2> QED BY <2>4, <2>5, <2>6 DEF Exact
<1>2. Exact("empty_statement")
  <2>1. /\ "empty_statement" \in DOMAIN Class
        /\ Visits["empty_statement"] = <<>>
    BY GroupsOfClasses DEF StatementVisits
  <2>2. /\ Class["empty_statement"] = empty_statement
        /\ MembersOf["empty_statement"] = empty_statement_members
    BY DEF Class, MembersOf
  <2>3. /\ OperandNames("empty_statement") = {}
        /\ Data("empty_statement") = {}
    BY <2>2 DEF OperandNames, Data, Operands, Fields, empty_statement
  <2>4. VisitExact("empty_statement")
    <3>1. {m \in OperandNames("empty_statement") :
              <<"empty_statement", m>> \notin Promise!NotCounted \cup Barren}
             = {}
      BY <2>3 DEF Promise!NotCounted, Barren
    <3>2. Row(<<>>, {})
      BY Row0
    <3> QED BY <2>1, <3>1, <3>2 DEF VisitExact
  <2>5. CopyExact("empty_statement")
    BY <2>1, <2>2, <2>3
       DEF CopyExact, Copied, Compared, Ignored, Supplemental, Forgotten,
           Members, empty_statement_members
  <2>6. LeastExact("empty_statement")
    BY <2>2 DEF LeastExact, Operands, Fields, empty_statement
  <2> QED BY <2>4, <2>5, <2>6 DEF Exact
<1>3. Exact("select_statement")
  <2>1. /\ "select_statement" \in DOMAIN Class
        /\ Visits["select_statement"] = <<"expression", "targets">>
    BY GroupsOfClasses DEF StatementVisits
  <2>2. /\ Class["select_statement"] = select_statement
        /\ MembersOf["select_statement"] = select_statement_members
    BY DEF Class, MembersOf
  <2>3. /\ OperandNames("select_statement") = {"expression", "targets"}
        /\ Data("select_statement") = {}
    BY <2>2 DEF OperandNames, Data, Operands, Fields, select_statement
  <2>4. VisitExact("select_statement")
    <3>1. {m \in OperandNames("select_statement") :
              <<"select_statement", m>> \notin Promise!NotCounted \cup Barren}
             = {"expression", "targets"}
      BY <2>3 DEF Promise!NotCounted, Barren
    <3>2. Row(<<"expression", "targets">>, {"expression", "targets"})
      BY Row2
    <3> QED BY <2>1, <3>1, <3>2 DEF VisitExact
  <2>5. CopyExact("select_statement")
    BY <2>1, <2>2, <2>3
       DEF CopyExact, Copied, Compared, Ignored, Supplemental, Forgotten,
           Members, select_statement_members
  <2>6. LeastExact("select_statement")
    BY <2>2 DEF LeastExact, Operands, Fields, select_statement
  <2> QED BY <2>4, <2>5, <2>6 DEF Exact
<1>4. Exact("insert_statement")
  <2>1. /\ "insert_statement" \in DOMAIN Class
        /\ Visits["insert_statement"] = <<"table_name", "columns", "expression">>
    BY GroupsOfClasses DEF StatementVisits
  <2>2. /\ Class["insert_statement"] = insert_statement
        /\ MembersOf["insert_statement"] = insert_statement_members
    BY DEF Class, MembersOf
  <2>3. /\ OperandNames("insert_statement") = {"table_name", "columns", "expression"}
        /\ Data("insert_statement") = {"options"}
    BY <2>2 DEF OperandNames, Data, Operands, Fields, insert_statement
  <2>4. VisitExact("insert_statement")
    <3>1. {m \in OperandNames("insert_statement") :
              <<"insert_statement", m>> \notin Promise!NotCounted \cup Barren}
             = {"table_name", "columns", "expression"}
      BY <2>3 DEF Promise!NotCounted, Barren
    <3>2. Row(<<"table_name", "columns", "expression">>, {"table_name", "columns", "expression"})
      BY Row3
    <3> QED BY <2>1, <3>1, <3>2 DEF VisitExact
  <2>5. CopyExact("insert_statement")
    BY <2>1, <2>2, <2>3
       DEF CopyExact, Copied, Compared, Ignored, Supplemental, Forgotten,
           Members, insert_statement_members
  <2>6. LeastExact("insert_statement")
    BY <2>2 DEF LeastExact, Operands, Fields, insert_statement
  <2> QED BY <2>4, <2>5, <2>6 DEF Exact
<1>5. Exact("update_statement")
  <2>1. /\ "update_statement" \in DOMAIN Class
        /\ Visits["update_statement"] = <<"table_name", "elements", "where">>
    BY GroupsOfClasses DEF StatementVisits
  <2>2. /\ Class["update_statement"] = update_statement
        /\ MembersOf["update_statement"] = update_statement_members
    BY DEF Class, MembersOf
  <2>3. /\ OperandNames("update_statement") = {"table_name", "alias_name", "elements", "where"}
        /\ Data("update_statement") = {}
    BY <2>2 DEF OperandNames, Data, Operands, Fields, update_statement
  <2>4. VisitExact("update_statement")
    <3>1. {m \in OperandNames("update_statement") :
              <<"update_statement", m>> \notin Promise!NotCounted \cup Barren}
             = {"table_name", "elements", "where"}
      BY <2>3 DEF Promise!NotCounted, Barren
    <3>2. Row(<<"table_name", "elements", "where">>, {"table_name", "elements", "where"})
      BY Row3
    <3> QED BY <2>1, <3>1, <3>2 DEF VisitExact
  <2>5. CopyExact("update_statement")
    BY <2>1, <2>2, <2>3
       DEF CopyExact, Copied, Compared, Ignored, Supplemental, Forgotten,
           Members, update_statement_members
  <2>6. LeastExact("update_statement")
    BY <2>2 DEF LeastExact, Operands, Fields, update_statement
  <2> QED BY <2>4, <2>5, <2>6 DEF Exact
<1>6. Exact("delete_statement")
  <2>1. /\ "delete_statement" \in DOMAIN Class
        /\ Visits["delete_statement"] = <<"table_name", "where">>
    BY GroupsOfClasses DEF StatementVisits
  <2>2. /\ Class["delete_statement"] = delete_statement
        /\ MembersOf["delete_statement"] = delete_statement_members
    BY DEF Class, MembersOf
  <2>3. /\ OperandNames("delete_statement") = {"table_name", "alias_name", "where"}
        /\ Data("delete_statement") = {}
    BY <2>2 DEF OperandNames, Data, Operands, Fields, delete_statement
  <2>4. VisitExact("delete_statement")
    <3>1. {m \in OperandNames("delete_statement") :
              <<"delete_statement", m>> \notin Promise!NotCounted \cup Barren}
             = {"table_name", "where"}
      BY <2>3 DEF Promise!NotCounted, Barren
    <3>2. Row(<<"table_name", "where">>, {"table_name", "where"})
      BY Row2
    <3> QED BY <2>1, <3>1, <3>2 DEF VisitExact
  <2>5. CopyExact("delete_statement")
    BY <2>1, <2>2, <2>3
       DEF CopyExact, Copied, Compared, Ignored, Supplemental, Forgotten,
           Members, delete_statement_members
  <2>6. LeastExact("delete_statement")
    BY <2>2 DEF LeastExact, Operands, Fields, delete_statement
  <2> QED BY <2>4, <2>5, <2>6 DEF Exact
<1>7. Exact("table_definition")
  <2>1. /\ "table_definition" \in DOMAIN Class
        /\ Visits["table_definition"] = <<"name", "elements", "parameters">>
    BY GroupsOfClasses DEF StatementVisits
  <2>2. /\ Class["table_definition"] = table_definition
        /\ MembersOf["table_definition"] = table_definition_members
    BY DEF Class, MembersOf
  <2>3. /\ OperandNames("table_definition") = {"name", "elements", "parameters"}
        /\ Data("table_definition") = {"options", "description"}
    BY <2>2 DEF OperandNames, Data, Operands, Fields, table_definition
  <2>4. VisitExact("table_definition")
    <3>1. {m \in OperandNames("table_definition") :
              <<"table_definition", m>> \notin Promise!NotCounted \cup Barren}
             = {"name", "elements", "parameters"}
      BY <2>3 DEF Promise!NotCounted, Barren
    <3>2. Row(<<"name", "elements", "parameters">>, {"name", "elements", "parameters"})
      BY Row3
    <3> QED BY <2>1, <3>1, <3>2 DEF VisitExact
  <2>5. CopyExact("table_definition")
    BY <2>1, <2>2, <2>3
       DEF CopyExact, Copied, Compared, Ignored, Supplemental, Forgotten,
           MembersBut, table_definition_members
  <2>6. LeastExact("table_definition")
    BY <2>2 DEF LeastExact, Operands, Fields, table_definition
  <2> QED BY <2>4, <2>5, <2>6 DEF Exact
<1>8. Exact("index_definition")
  <2>1. /\ "index_definition" \in DOMAIN Class
        /\ Visits["index_definition"] = <<"name", "table_name", "keys", "values", "predicate", "parameters">>
    BY GroupsOfClasses DEF StatementVisits
  <2>2. /\ Class["index_definition"] = index_definition
        /\ MembersOf["index_definition"] = index_definition_members
    BY DEF Class, MembersOf
  <2>3. /\ OperandNames("index_definition") = {"name", "table_name", "keys", "values", "predicate", "parameters"}
        /\ Data("index_definition") = {"options", "description"}
    BY <2>2 DEF OperandNames, Data, Operands, Fields, index_definition
  <2>4. VisitExact("index_definition")
    <3>1. {m \in OperandNames("index_definition") :
              <<"index_definition", m>> \notin Promise!NotCounted \cup Barren}
             = {"name", "table_name", "keys", "values", "predicate", "parameters"}
      BY <2>3 DEF Promise!NotCounted, Barren
    <3>2. Row(<<"name", "table_name", "keys", "values", "predicate", "parameters">>, {"name", "table_name", "keys", "values", "predicate", "parameters"})
      BY Row6
    <3> QED BY <2>1, <3>1, <3>2 DEF VisitExact
  <2>5. CopyExact("index_definition")
    BY <2>1, <2>2, <2>3
       DEF CopyExact, Copied, Compared, Ignored, Supplemental, Forgotten,
           MembersBut, index_definition_members
  <2>6. LeastExact("index_definition")
    BY <2>2 DEF LeastExact, Operands, Fields, index_definition
  <2> QED BY <2>4, <2>5, <2>6 DEF Exact
<1>9. Exact("view_definition")
  <2>1. /\ "view_definition" \in DOMAIN Class
        /\ Visits["view_definition"] = <<"name", "columns", "query", "parameters">>
    BY GroupsOfClasses DEF StatementVisits
  <2>2. /\ Class["view_definition"] = view_definition
        /\ MembersOf["view_definition"] = view_definition_members
    BY DEF Class, MembersOf
  <2>3. /\ OperandNames("view_definition") = {"name", "columns", "query", "parameters"}
        /\ Data("view_definition") = {"options", "description"}
    BY <2>2 DEF OperandNames, Data, Operands, Fields, view_definition
  <2>4. VisitExact("view_definition")
    <3>1. {m \in OperandNames("view_definition") :
              <<"view_definition", m>> \notin Promise!NotCounted \cup Barren}
             = {"name", "columns", "query", "parameters"}
      BY <2>3 DEF Promise!NotCounted, Barren
    <3>2. Row(<<"name", "columns", "query", "parameters">>, {"name", "columns", "query", "parameters"})
      BY Row4
    <3> QED BY <2>1, <3>1, <3>2 DEF VisitExact
  <2>5. CopyExact("view_definition")
    BY <2>1, <2>2, <2>3
       DEF CopyExact, Copied, Compared, Ignored, Supplemental, Forgotten,
           MembersBut, view_definition_members
  <2>6. LeastExact("view_definition")
    BY <2>2 DEF LeastExact, Operands, Fields, view_definition
  <2> QED BY <2>4, <2>5, <2>6 DEF Exact
<1>10. Exact("sequence_definition")
  <2>1. /\ "sequence_definition" \in DOMAIN Class
        /\ Visits["sequence_definition"] = <<"name", "type", "initial_value", "increment_value", "min_value", "max_value", "owner">>
    BY GroupsOfClasses DEF StatementVisits
  <2>2. /\ Class["sequence_definition"] = sequence_definition
        /\ MembersOf["sequence_definition"] = sequence_definition_members
    BY DEF Class, MembersOf
  <2>3. /\ OperandNames("sequence_definition") = {"name", "type", "initial_value", "increment_value", "min_value", "max_value", "owner"}
        /\ Data("sequence_definition") = {"options", "description"}
    BY <2>2 DEF OperandNames, Data, Operands, Fields, sequence_definition
  <2>4. VisitExact("sequence_definition")
    <3>1. {m \in OperandNames("sequence_definition") :
              <<"sequence_definition", m>> \notin Promise!NotCounted \cup Barren}
             = {"name", "type", "initial_value", "increment_value", "min_value", "max_value", "owner"}
      BY <2>3 DEF Promise!NotCounted, Barren
    <3>2. Row(<<"name", "type", "initial_value", "increment_value", "min_value", "max_value", "owner">>, {"name", "type", "initial_value", "increment_value", "min_value", "max_value", "owner"})
      BY Row7
    <3> QED BY <2>1, <3>1, <3>2 DEF VisitExact
  <2>5. CopyExact("sequence_definition")
    BY <2>1, <2>2, <2>3
       DEF CopyExact, Copied, Compared, Ignored, Supplemental, Forgotten,
           MembersBut, sequence_definition_members
  <2>6. LeastExact("sequence_definition")
    BY <2>2 DEF LeastExact, Operands, Fields, sequence_definition
  <2> QED BY <2>4, <2>5, <2>6 DEF Exact
<1>11. Exact("schema_definition")
  <2>1. /\ "schema_definition" \in DOMAIN Class
        /\ Visits["schema_definition"] = <<"name", "user_name", "elements">>
    BY GroupsOfClasses DEF StatementVisits
  <2>2. /\ Class["schema_definition"] = schema_definition
        /\ MembersOf["schema_definition"] = schema_definition_members
    BY DEF Class, MembersOf
  <2>3. /\ OperandNames("schema_definition") = {"name", "user_name", "elements"}
        /\ Data("schema_definition") = {"options", "description"}
    BY <2>2 DEF OperandNames, Data, Operands, Fields, schema_definition
  <2>4. VisitExact("schema_definition")
    <3>1. {m \in OperandNames("schema_definition") :
              <<"schema_definition", m>> \notin Promise!NotCounted \cup Barren}
             = {"name", "user_name", "elements"}
      BY <2>3 DEF Promise!NotCounted, Barren
    <3>2. Row(<<"name", "user_name", "elements">>, {"name", "user_name", "elements"})
      BY Row3
    <3> QED BY <2>1, <3>1, <3>2 DEF VisitExact
  <2>5. CopyExact("schema_definition")
    BY <2>1, <2>2, <2>3
       DEF CopyExact, Copied, Compared, Ignored, Supplemental, Forgotten,
           MembersBut, schema_definition_members
  <2>6. LeastExact("schema_definition")
    BY <2>2 DEF LeastExact, Operands, Fields, schema_definition
  <2> QED BY <2>4, <2>5, <2>6 DEF Exact
<1>12. Exact("alter_table_statement")
  <2>1. /\ "alter_table_statement" \in DOMAIN Class
        /\ Visits["alter_table_statement"] = <<"name", "action">>
    BY GroupsOfClasses DEF StatementVisits
  <2>2. /\ Class["alter_table_statement"] = alter_table_statement
        /\ MembersOf["alter_table_statement"] = alter_table_statement_members
    BY DEF Class, MembersOf
  <2>3. /\ OperandNames("alter_table_statement") = {"name", "action"}
        /\ Data("alter_table_statement") = {"if_exists"}
    BY <2>2 DEF OperandNames, Data, Operands, Fields, alter_table_statement
  <2>4. VisitExact("alter_table_statement")
    <3>1. {m \in OperandNames("alter_table_statement") :
              <<"alter_table_statement", m>> \notin Promise!NotCounted \cup Barren}
             = {"name", "action"}
      BY <2>3 DEF Promise!NotCounted, Barren
    <3>2. Row(<<"name", "action">>, {"name", "action"})
      BY Row2
    <3> QED BY <2>1, <3>1, <3>2 DEF VisitExact
  <2>5. CopyExact("alter_table_statement")
    BY <2>1, <2>2, <2>3
       DEF CopyExact, Copied, Compared, Ignored, Supplemental, Forgotten,
           Members, alter_table_statement_members
  <2>6. LeastExact("alter_table_statement")
    BY <2>2 DEF LeastExact, Operands, Fields, alter_table_statement
  <2> QED BY <2>4, <2>5, <2>6 DEF Exact
<1>13. Exact("alter_index_statement")
  <2>1. /\ "alter_index_statement" \in DOMAIN Class
        /\ Visits["alter_index_statement"] = <<"name", "action">>
    BY GroupsOfClasses DEF StatementVisits
  <2>2. /\ Class["alter_index_statement"] = alter_index_statement
        /\ MembersOf["alter_index_statement"] = alter_index_statement_members
    BY DEF Class, MembersOf
  <2>3. /\ OperandNames("alter_index_statement") = {"name", "action"}
        /\ Data("alter_index_statement") = {"if_exists"}
    BY <2>2 DEF OperandNames, Data, Operands, Fields, alter_index_statement
  <2>4. VisitExact("alter_index_statement")
    <3>1. {m \in OperandNames("alter_index_statement") :
              <<"alter_index_statement", m>> \notin Promise!NotCounted \cup Barren}
             = {"name", "action"}
      BY <2>3 DEF Promise!NotCounted, Barren
    <3>2. Row(<<"name", "action">>, {"name", "action"})
      BY Row2
    <3> QED BY <2>1, <3>1, <3>2 DEF VisitExact
  <2>5. CopyExact("alter_index_statement")
    BY <2>1, <2>2, <2>3
       DEF CopyExact, Copied, Compared, Ignored, Supplemental, Forgotten,
           Members, alter_index_statement_members
  <2>6. LeastExact("alter_index_statement")
    BY <2>2 DEF LeastExact, Operands, Fields, alter_index_statement
  <2> QED BY <2>4, <2>5, <2>6 DEF Exact
<1>14. Exact("drop_statement")
  <2>1. /\ "drop_statement" \in DOMAIN Class
        /\ Visits["drop_statement"] = <<"name">>
    BY GroupsOfClasses DEF StatementVisits
  <2>2. /\ Class["drop_statement"] = drop_statement
        /\ MembersOf["drop_statement"] = drop_statement_members
    BY DEF Class, MembersOf
  <2>3. /\ OperandNames("drop_statement") = {"name"}
        /\ Data("drop_statement") = {"statement_kind", "options"}
    BY <2>2 DEF OperandNames, Data, Operands, Fields, drop_statement
  <2>4. VisitExact("drop_statement")
    <3>1. {m \in OperandNames("drop_statement") :
              <<"drop_statement", m>> \notin Promise!NotCounted \cup Barren}
             = {"name"}
      BY <2>3 DEF Promise!NotCounted, Barren
    <3>2. Row(<<"name">>, {"name"})
      BY Row1
    <3> QED BY <2>1, <3>1, <3>2 DEF VisitExact
  <2>5. CopyExact("drop_statement")
    BY <2>1, <2>2, <2>3
       DEF CopyExact, Copied, Compared, Ignored, Supplemental, Forgotten,
           Members, drop_statement_members
  <2>6. LeastExact("drop_statement")
    BY <2>2 DEF LeastExact, Operands, Fields, drop_statement
  <2> QED BY <2>4, <2>5, <2>6 DEF Exact
<1>15. Exact("truncate_table_statement")
  <2>1. /\ "truncate_table_statement" \in DOMAIN Class
        /\ Visits["truncate_table_statement"] = <<"name">>
    BY GroupsOfClasses DEF StatementVisits
  <2>2. /\ Class["truncate_table_statement"] = truncate_table_statement
        /\ MembersOf["truncate_table_statement"] = truncate_table_statement_members
    BY DEF Class, MembersOf
  <2>3. /\ OperandNames("truncate_table_statement") = {"name"}
        /\ Data("truncate_table_statement") = {"identity_column_option"}
    BY <2>2 DEF OperandNames, Data, Operands, Fields, truncate_table_statement
  <2>4. VisitExact("truncate_table_statement")
    <3>1. {m \in OperandNames("truncate_table_statement") :
              <<"truncate_table_statement", m>> \notin Promise!NotCounted \cup Barren}
             = {"name"}
      BY <2>3 DEF Promise!NotCounted, Barren
    <3>2. Row(<<"name">>, {"name"})
      BY Row1
    <3> QED BY <2>1, <3>1, <3>2 DEF VisitExact
  <2>5. CopyExact("truncate_table_statement")
    BY <2>1, <2>2, <2>3
       DEF CopyExact, Copied, Compared, Ignored, Supplemental, Forgotten,
           Members, truncate_table_statement_members
  <2>6. LeastExact("truncate_table_statement")
    BY <2>2 DEF LeastExact, Operands, Fields, truncate_table_statement
  <2> QED BY <2>4, <2>5, <2>6 DEF Exact
<1>16. Exact("grant_privilege_statement")
  <2>1. /\ "grant_privilege_statement" \in DOMAIN Class
        /\ Visits["grant_privilege_statement"] = <<"objects", "users">>
    BY GroupsOfClasses DEF StatementVisits
  <2>2. /\ Class["grant_privilege_statement"] = grant_privilege_statement
        /\ MembersOf["grant_privilege_statement"] = grant_privilege_statement_members
    BY DEF Class, MembersOf
  <2>3. /\ OperandNames("grant_privilege_statement") = {"actions", "objects", "users"}
        /\ Data("grant_privilege_statement") = {}
    BY <2>2 DEF OperandNames, Data, Operands, Fields, grant_privilege_statement
  <2>4. VisitExact("grant_privilege_statement")
    <3>1. {m \in OperandNames("grant_privilege_statement") :
              <<"grant_privilege_statement", m>> \notin Promise!NotCounted \cup Barren}
             = {"objects", "users"}
      BY <2>3 DEF Promise!NotCounted, Barren
    <3>2. Row(<<"objects", "users">>, {"objects", "users"})
      BY Row2
    <3> QED BY <2>1, <3>1, <3>2 DEF VisitExact
  <2>5. CopyExact("grant_privilege_statement")
    BY <2>1, <2>2, <2>3
       DEF CopyExact, Copied, Compared, Ignored, Supplemental, Forgotten,
           Members, grant_privilege_statement_members
  <2>6. LeastExact("grant_privilege_statement")
    BY <2>2 DEF LeastExact, Operands, Fields, grant_privilege_statement
  <2> QED BY <2>4, <2>5, <2>6 DEF Exact
<1>17. Exact("revoke_privilege_statement")
  <2>1. /\ "revoke_privilege_statement" \in DOMAIN Class
        /\ Visits["revoke_privilege_statement"] = <<"objects", "users">>
    BY GroupsOfClasses DEF StatementVisits
  <2>2. /\ Class["revoke_privilege_statement"] = revoke_privilege_statement
        /\ MembersOf["revoke_privilege_statement"] = revoke_privilege_statement_members
    BY DEF Class, MembersOf
  <2>3. /\ OperandNames("revoke_privilege_statement") = {"actions", "objects", "users"}
        /\ Data("revoke_privilege_statement") = {}
    BY <2>2 DEF OperandNames, Data, Operands, Fields, revoke_privilege_statement
  <2>4. VisitExact("revoke_privilege_statement")
    <3>1. {m \in OperandNames("revoke_privilege_statement") :
              <<"revoke_privilege_statement", m>> \notin Promise!NotCounted \cup Barren}
             = {"objects", "users"}
      BY <2>3 DEF Promise!NotCounted, Barren
    <3>2. Row(<<"objects", "users">>, {"objects", "users"})
      BY Row2
    <3> QED BY <2>1, <3>1, <3>2 DEF VisitExact
  <2>5. CopyExact("revoke_privilege_statement")
    BY <2>1, <2>2, <2>3
       DEF CopyExact, Copied, Compared, Ignored, Supplemental, Forgotten,
           Members, revoke_privilege_statement_members
  <2>6. LeastExact("revoke_privilege_statement")
    BY <2>2 DEF LeastExact, Operands, Fields, revoke_privilege_statement
  <2> QED BY <2>4, <2>5, <2>6 DEF Exact
<1> QED BY <1>1, <1>2, <1>3, <1>4, <1>5, <1>6, <1>7, <1>8, <1>9, <1>10, <1>11,
           <1>12, <1>13, <1>14, <1>15, <1>16, <1>17 DEF StatementVisits

(* The elements of statements, class by class.                             *)
LEMMA ElementClasses ==
    ASSUME NEW c \in DOMAIN ElementVisits
    PROVE  Exact(c)
<1> USE DEF One, Optional, Many, Some, Datum
<1>1. Exact("column_definition")
  <2>1. /\ "column_definition" \in DOMAIN Class
        /\ Visits["column_definition"] = <<"name", "type", "constraints">>
    BY GroupsOfClasses DEF ElementVisits
  <2>2. /\ Class["column_definition"] = column_definition
        /\ MembersOf["column_definition"] = column_definition_members
    BY DEF Class, MembersOf
  <2>3. /\ OperandNames("column_definition") = {"name", "type", "constraints"}
        /\ Data("column_definition") = {"description"}
    BY <2>2 DEF OperandNames, Data, Operands, Fields, column_definition
  <2>4. VisitExact("column_definition")
    <3>1. {m \in OperandNames("column_definition") :
              <<"column_definition", m>> \notin Promise!NotCounted \cup Barren}
             = {"name", "type", "constraints"}
      BY <2>3 DEF Promise!NotCounted, Barren
    <3>2. Row(<<"name", "type", "constraints">>, {"name", "type", "constraints"})
      BY Row3
    <3> QED BY <2>1, <3>1, <3>2 DEF VisitExact
  <2>5. CopyExact("column_definition")
    BY <2>1, <2>2, <2>3
       DEF CopyExact, Copied, Compared, Ignored, Supplemental, Forgotten,
           MembersBut, column_definition_members
  <2>6. LeastExact("column_definition")
    BY <2>2 DEF LeastExact, Operands, Fields, column_definition
  <2> QED BY <2>4, <2>5, <2>6 DEF Exact
<1>2. Exact("table_constraint_definition")
  <2>1. /\ "table_constraint_definition" \in DOMAIN Class
        /\ Visits["table_constraint_definition"] = <<"name", "body">>
    BY GroupsOfClasses DEF ElementVisits
  <2>2. /\ Class["table_constraint_definition"] = table_constraint_definition
        /\ MembersOf["table_constraint_definition"] = table_constraint_definition_members
    BY DEF Class, MembersOf
  <2>3. /\ OperandNames("table_constraint_definition") = {"name", "body"}
        /\ Data("table_constraint_definition") = {}
    BY <2>2 DEF OperandNames, Data, Operands, Fields, table_constraint_definition
  <2>4. VisitExact("table_constraint_definition")
    <3>1. {m \in OperandNames("table_constraint_definition") :
              <<"table_constraint_definition", m>> \notin Promise!NotCounted \cup Barren}
             = {"name", "body"}
      BY <2>3 DEF Promise!NotCounted, Barren
    <3>2. Row(<<"name", "body">>, {"name", "body"})
      BY Row2
    <3> QED BY <2>1, <3>1, <3>2 DEF VisitExact
  <2>5. CopyExact("table_constraint_definition")
    BY <2>1, <2>2, <2>3
       DEF CopyExact, Copied, Compared, Ignored, Supplemental, Forgotten,
           Members, table_constraint_definition_members
  <2>6. LeastExact("table_constraint_definition")
    BY <2>2 DEF LeastExact, Operands, Fields, table_constraint_definition
  <2> QED BY <2>4, <2>5, <2>6 DEF Exact
<1>3. Exact("simple_constraint")
  <2>1. /\ "simple_constraint" \in DOMAIN Class
        /\ Visits["simple_constraint"] = <<>>
    BY GroupsOfClasses DEF ElementVisits
  <2>2. /\ Class["simple_constraint"] = simple_constraint
        /\ MembersOf["simple_constraint"] = simple_constraint_members
    BY DEF Class, MembersOf
  <2>3. /\ OperandNames("simple_constraint") = {}
        /\ Data("simple_constraint") = {"constraint_kind"}
    BY <2>2 DEF OperandNames, Data, Operands, Fields, simple_constraint
  <2>4. VisitExact("simple_constraint")
    <3>1. {m \in OperandNames("simple_constraint") :
              <<"simple_constraint", m>> \notin Promise!NotCounted \cup Barren}
             = {}
      BY <2>3 DEF Promise!NotCounted, Barren
    <3>2. Row(<<>>, {})
      BY Row0
    <3> QED BY <2>1, <3>1, <3>2 DEF VisitExact
  <2>5. CopyExact("simple_constraint")
    BY <2>1, <2>2, <2>3
       DEF CopyExact, Copied, Compared, Ignored, Supplemental, Forgotten,
           Members, simple_constraint_members
  <2>6. LeastExact("simple_constraint")
    BY <2>2 DEF LeastExact, Operands, Fields, simple_constraint
  <2> QED BY <2>4, <2>5, <2>6 DEF Exact
<1>4. Exact("expression_constraint")
  <2>1. /\ "expression_constraint" \in DOMAIN Class
        /\ Visits["expression_constraint"] = <<"expression">>
    BY GroupsOfClasses DEF ElementVisits
  <2>2. /\ Class["expression_constraint"] = expression_constraint
        /\ MembersOf["expression_constraint"] = expression_constraint_members
    BY DEF Class, MembersOf
  <2>3. /\ OperandNames("expression_constraint") = {"expression"}
        /\ Data("expression_constraint") = {"constraint_kind"}
    BY <2>2 DEF OperandNames, Data, Operands, Fields, expression_constraint
  <2>4. VisitExact("expression_constraint")
    <3>1. {m \in OperandNames("expression_constraint") :
              <<"expression_constraint", m>> \notin Promise!NotCounted \cup Barren}
             = {"expression"}
      BY <2>3 DEF Promise!NotCounted, Barren
    <3>2. Row(<<"expression">>, {"expression"})
      BY Row1
    <3> QED BY <2>1, <3>1, <3>2 DEF VisitExact
  <2>5. CopyExact("expression_constraint")
    BY <2>1, <2>2, <2>3
       DEF CopyExact, Copied, Compared, Ignored, Supplemental, Forgotten,
           Members, expression_constraint_members
  <2>6. LeastExact("expression_constraint")
    BY <2>2 DEF LeastExact, Operands, Fields, expression_constraint
  <2> QED BY <2>4, <2>5, <2>6 DEF Exact
<1>5. Exact("key_constraint")
  <2>1. /\ "key_constraint" \in DOMAIN Class
        /\ Visits["key_constraint"] = <<"key", "values", "parameters">>
    BY GroupsOfClasses DEF ElementVisits
  <2>2. /\ Class["key_constraint"] = key_constraint
        /\ MembersOf["key_constraint"] = key_constraint_members
    BY DEF Class, MembersOf
  <2>3. /\ OperandNames("key_constraint") = {"key", "values", "parameters"}
        /\ Data("key_constraint") = {"constraint_kind"}
    BY <2>2 DEF OperandNames, Data, Operands, Fields, key_constraint
  <2>4. VisitExact("key_constraint")
    <3>1. {m \in OperandNames("key_constraint") :
              <<"key_constraint", m>> \notin Promise!NotCounted \cup Barren}
             = {"key", "values", "parameters"}
      BY <2>3 DEF Promise!NotCounted, Barren
    <3>2. Row(<<"key", "values", "parameters">>, {"key", "values", "parameters"})
      BY Row3
    <3> QED BY <2>1, <3>1, <3>2 DEF VisitExact
  <2>5. CopyExact("key_constraint")
    BY <2>1, <2>2, <2>3
       DEF CopyExact, Copied, Compared, Ignored, Supplemental, Forgotten,
           Members, key_constraint_members
  <2>6. LeastExact("key_constraint")
    BY <2>2 DEF LeastExact, Operands, Fields, key_constraint
  <2> QED BY <2>4, <2>5, <2>6 DEF Exact
<1>6. Exact("referential_constraint")
  <2>1. /\ "referential_constraint" \in DOMAIN Class
        /\ Visits["referential_constraint"] = <<"columns", "target", "target_columns">>
    BY GroupsOfClasses DEF ElementVisits
  <2>2. /\ Class["referential_constraint"] = referential_constraint
        /\ MembersOf["referential_constraint"] = referential_constraint_members
    BY DEF Class, MembersOf
  <2>3. /\ OperandNames("referential_constraint") = {"columns", "target", "target_columns"}
        /\ Data("referential_constraint") = {"on_update", "on_delete"}
    BY <2>2 DEF OperandNames, Data, Operands, Fields, referential_constraint
  <2>4. VisitExact("referential_constraint")
    <3>1. {m \in OperandNames("referential_constraint") :
              <<"referential_constraint", m>> \notin Promise!NotCounted \cup Barren}
             = {"columns", "target", "target_columns"}
      BY <2>3 DEF Promise!NotCounted, Barren
    <3>2. Row(<<"columns", "target", "target_columns">>, {"columns", "target", "target_columns"})
      BY Row3
    <3> QED BY <2>1, <3>1, <3>2 DEF VisitExact
  <2>5. CopyExact("referential_constraint")
    BY <2>1, <2>2, <2>3
       DEF CopyExact, Copied, Compared, Ignored, Supplemental, Forgotten,
           Members, referential_constraint_members
  <2>6. LeastExact("referential_constraint")
    BY <2>2 DEF LeastExact, Operands, Fields, referential_constraint
  <2> QED BY <2>4, <2>5, <2>6 DEF Exact
<1>7. Exact("identity_constraint")
  <2>1. /\ "identity_constraint" \in DOMAIN Class
        /\ Visits["identity_constraint"] = <<"initial_value", "increment_value", "min_value", "max_value">>
    BY GroupsOfClasses DEF ElementVisits
  <2>2. /\ Class["identity_constraint"] = identity_constraint
        /\ MembersOf["identity_constraint"] = identity_constraint_members
    BY DEF Class, MembersOf
  <2>3. /\ OperandNames("identity_constraint") = {"initial_value", "increment_value", "min_value", "max_value"}
        /\ Data("identity_constraint") = {"generation", "cycle"}
    BY <2>2 DEF OperandNames, Data, Operands, Fields, identity_constraint
  <2>4. VisitExact("identity_constraint")
    <3>1. {m \in OperandNames("identity_constraint") :
              <<"identity_constraint", m>> \notin Promise!NotCounted \cup Barren}
             = {"initial_value", "increment_value", "min_value", "max_value"}
      BY <2>3 DEF Promise!NotCounted, Barren
    <3>2. Row(<<"initial_value", "increment_value", "min_value", "max_value">>, {"initial_value", "increment_value", "min_value", "max_value"})
      BY Row4
    <3> QED BY <2>1, <3>1, <3>2 DEF VisitExact
  <2>5. CopyExact("identity_constraint")
    BY <2>1, <2>2, <2>3
       DEF CopyExact, Copied, Compared, Ignored, Supplemental, Forgotten,
           Members, identity_constraint_members
  <2>6. LeastExact("identity_constraint")
    BY <2>2 DEF LeastExact, Operands, Fields, identity_constraint
  <2> QED BY <2>4, <2>5, <2>6 DEF Exact
<1>8. Exact("rename_table_action")
  <2>1. /\ "rename_table_action" \in DOMAIN Class
        /\ Visits["rename_table_action"] = <<"replacement">>
    BY GroupsOfClasses DEF ElementVisits
  <2>2. /\ Class["rename_table_action"] = rename_table_action
        /\ MembersOf["rename_table_action"] = rename_table_action_members
    BY DEF Class, MembersOf
  <2>3. /\ OperandNames("rename_table_action") = {"replacement"}
        /\ Data("rename_table_action") = {}
    BY <2>2 DEF OperandNames, Data, Operands, Fields, rename_table_action
  <2>4. VisitExact("rename_table_action")
    <3>1. {m \in OperandNames("rename_table_action") :
              <<"rename_table_action", m>> \notin Promise!NotCounted \cup Barren}
             = {"replacement"}
      BY <2>3 DEF Promise!NotCounted, Barren
    <3>2. Row(<<"replacement">>, {"replacement"})
      BY Row1
    <3> QED BY <2>1, <3>1, <3>2 DEF VisitExact
  <2>5. CopyExact("rename_table_action")
    BY <2>1, <2>2, <2>3
       DEF CopyExact, Copied, Compared, Ignored, Supplemental, Forgotten,
           Members, rename_table_action_members
  <2>6. LeastExact("rename_table_action")
    BY <2>2 DEF LeastExact, Operands, Fields, rename_table_action
  <2> QED BY <2>4, <2>5, <2>6 DEF Exact
<1>9. Exact("rename_column_action")
  <2>1. /\ "rename_column_action" \in DOMAIN Class
        /\ Visits["rename_column_action"] = <<"column_name", "replacement">>
    BY GroupsOfClasses DEF ElementVisits
  <2>2. /\ Class["rename_column_action"] = rename_column_action
        /\ MembersOf["rename_column_action"] = rename_column_action_members
    BY DEF Class, MembersOf
  <2>3. /\ OperandNames("rename_column_action") = {"column_name", "replacement"}
        /\ Data("rename_column_action") = {"if_exists"}
    BY <2>2 DEF OperandNames, Data, Operands, Fields, rename_column_action
  <2>4. VisitExact("rename_column_action")
    <3>1. {m \in OperandNames("rename_column_action") :
              <<"rename_column_action", m>> \notin Promise!NotCounted \cup Barren}
             = {"column_name", "replacement"}
      BY <2>3 DEF Promise!NotCounted, Barren
    <3>2. Row(<<"column_name", "replacement">>, {"column_name", "replacement"})
      BY Row2
    <3> QED BY <2>1, <3>1, <3>2 DEF VisitExact
  <2>5. CopyExact("rename_column_action")
    BY <2>1, <2>2, <2>3
       DEF CopyExact, Copied, Compared, Ignored, Supplemental, Forgotten,
           Members, rename_column_action_members
  <2>6. LeastExact("rename_column_action")
    BY <2>2 DEF LeastExact, Operands, Fields, rename_column_action
  <2> QED BY <2>4, <2>5, <2>6 DEF Exact
<1>10. Exact("rename_index_action")
  <2>1. /\ "rename_index_action" \in DOMAIN Class
        /\ Visits["rename_index_action"] = <<"replacement">>
    BY GroupsOfClasses DEF ElementVisits
  <2>2. /\ Class["rename_index_action"] = rename_index_action
        /\ MembersOf["rename_index_action"] = rename_index_action_members
    BY DEF Class, MembersOf
  <2>3. /\ OperandNames("rename_index_action") = {"replacement"}
        /\ Data("rename_index_action") = {}
    BY <2>2 DEF OperandNames, Data, Operands, Fields, rename_index_action
  <2>4. VisitExact("rename_index_action")
    <3>1. {m \in OperandNames("rename_index_action") :
              <<"rename_index_action", m>> \notin Promise!NotCounted \cup Barren}
             = {"replacement"}
      BY <2>3 DEF Promise!NotCounted, Barren
    <3>2. Row(<<"replacement">>, {"replacement"})
      BY Row1
    <3> QED BY <2>1, <3>1, <3>2 DEF VisitExact
  <2>5. CopyExact("rename_index_action")
    BY <2>1, <2>2, <2>3
       DEF CopyExact, Copied, Compared, Ignored, Supplemental, Forgotten,
           Members, rename_index_action_members
  <2>6. LeastExact("rename_index_action")
    BY <2>2 DEF LeastExact, Operands, Fields, rename_index_action
  <2> QED BY <2>4, <2>5, <2>6 DEF Exact
<1> QED BY <1>1, <1>2, <1>3, <1>4, <1>5, <1>6, <1>7, <1>8, <1>9, <1>10 DEF ElementVisits

(* The queries, class by class.                                            *)
LEMMA QueryClasses ==
    ASSUME NEW c \in DOMAIN QueryVisits
    PROVE  Exact(c)
<1> USE DEF One, Optional, Many, Some, Datum
<1>1. Exact("query")
  <2>1. /\ "query" \in DOMAIN Class
        /\ Visits["query"] = <<"elements", "from", "where", "group_by", "having", "order_by", "limit">>
    BY GroupsOfClasses DEF QueryVisits
  <2>2. /\ Class["query"] = query
        /\ MembersOf["query"] = query_members
    BY DEF Class, MembersOf
  <2>3. /\ OperandNames("query") = {"elements", "from", "where", "group_by", "having", "order_by", "limit"}
        /\ Data("query") = {"quantifier"}
    BY <2>2 DEF OperandNames, Data, Operands, Fields, query
  <2>4. VisitExact("query")
    <3>1. {m \in OperandNames("query") :
              <<"query", m>> \notin Promise!NotCounted \cup Barren}
             = {"elements", "from", "where", "group_by", "having", "order_by", "limit"}
      BY <2>3 DEF Promise!NotCounted, Barren
    <3>2. Row(<<"elements", "from", "where", "group_by", "having", "order_by", "limit">>, {"elements", "from", "where", "group_by", "having", "order_by", "limit"})
      BY Row7
    <3> QED BY <2>1, <3>1, <3>2 DEF VisitExact
  <2>5. CopyExact("query")
    BY <2>1, <2>2, <2>3
       DEF CopyExact, Copied, Compared, Ignored, Supplemental, Forgotten,
           Members, DeniesItself, query_members
  <2>6. LeastExact("query")
    BY <2>2 DEF LeastExact, Operands, Fields, query
  <2> QED BY <2>4, <2>5, <2>6 DEF Exact
<1>2. Exact("query_table_reference")
  <2>1. /\ "query_table_reference" \in DOMAIN Class
        /\ Visits["query_table_reference"] = <<"name">>
    BY GroupsOfClasses DEF QueryVisits
  <2>2. /\ Class["query_table_reference"] = query_table_reference
        /\ MembersOf["query_table_reference"] = query_table_reference_members
    BY DEF Class, MembersOf
  <2>3. /\ OperandNames("query_table_reference") = {"name"}
        /\ Data("query_table_reference") = {}
    BY <2>2 DEF OperandNames, Data, Operands, Fields, query_table_reference
  <2>4. VisitExact("query_table_reference")
    <3>1. {m \in OperandNames("query_table_reference") :
              <<"query_table_reference", m>> \notin Promise!NotCounted \cup Barren}
             = {"name"}
      BY <2>3 DEF Promise!NotCounted, Barren
    <3>2. Row(<<"name">>, {"name"})
      BY Row1
    <3> QED BY <2>1, <3>1, <3>2 DEF VisitExact
  <2>5. CopyExact("query_table_reference")
    BY <2>1, <2>2, <2>3
       DEF CopyExact, Copied, Compared, Ignored, Supplemental, Forgotten,
           Members, DeniesItself, query_table_reference_members
  <2>6. LeastExact("query_table_reference")
    BY <2>2 DEF LeastExact, Operands, Fields, query_table_reference
  <2> QED BY <2>4, <2>5, <2>6 DEF Exact
<1>3. Exact("table_value_constructor")
  <2>1. /\ "table_value_constructor" \in DOMAIN Class
        /\ Visits["table_value_constructor"] = <<"elements">>
    BY GroupsOfClasses DEF QueryVisits
  <2>2. /\ Class["table_value_constructor"] = table_value_constructor
        /\ MembersOf["table_value_constructor"] = table_value_constructor_members
    BY DEF Class, MembersOf
  <2>3. /\ OperandNames("table_value_constructor") = {"elements"}
        /\ Data("table_value_constructor") = {}
    BY <2>2 DEF OperandNames, Data, Operands, Fields, table_value_constructor
  <2>4. VisitExact("table_value_constructor")
    <3>1. {m \in OperandNames("table_value_constructor") :
              <<"table_value_constructor", m>> \notin Promise!NotCounted \cup Barren}
             = {"elements"}
      BY <2>3 DEF Promise!NotCounted, Barren
    <3>2. Row(<<"elements">>, {"elements"})
      BY Row1
    <3> QED BY <2>1, <3>1, <3>2 DEF VisitExact
  <2>5. CopyExact("table_value_constructor")
    BY <2>1, <2>2, <2>3
       DEF CopyExact, Copied, Compared, Ignored, Supplemental, Forgotten,
           Members, DeniesItself, table_value_constructor_members
  <2>6. LeastExact("table_value_constructor")
    BY <2>2 DEF LeastExact, Operands, Fields, table_value_constructor
  <2> QED BY <2>4, <2>5, <2>6 DEF Exact
<1>4. Exact("query_binary_expression")
  <2>1. /\ "query_binary_expression" \in DOMAIN Class
        /\ Visits["query_binary_expression"] = <<"left", "corresponding", "right">>
    BY GroupsOfClasses DEF QueryVisits
  <2>2. /\ Class["query_binary_expression"] = query_binary_expression
        /\ MembersOf["query_binary_expression"] = query_binary_expression_members
    BY DEF Class, MembersOf
  <2>3. /\ OperandNames("query_binary_expression") = {"left", "corresponding", "right"}
        /\ Data("query_binary_expression") = {"operator_kind", "quantifier"}
    BY <2>2 DEF OperandNames, Data, Operands, Fields, query_binary_expression
  <2>4. VisitExact("query_binary_expression")
    <3>1. {m \in OperandNames("query_binary_expression") :
              <<"query_binary_expression", m>> \notin Promise!NotCounted \cup Barren}
             = {"left", "corresponding", "right"}
      BY <2>3 DEF Promise!NotCounted, Barren
    <3>2. Row(<<"left", "corresponding", "right">>, {"left", "corresponding", "right"})
      BY Row3
    <3> QED BY <2>1, <3>1, <3>2 DEF VisitExact
  <2>5. CopyExact("query_binary_expression")
    BY <2>1, <2>2, <2>3
       DEF CopyExact, Copied, Compared, Ignored, Supplemental, Forgotten,
           Members, DeniesItself, query_binary_expression_members
  <2>6. LeastExact("query_binary_expression")
    BY <2>2 DEF LeastExact, Operands, Fields, query_binary_expression
  <2> QED BY <2>4, <2>5, <2>6 DEF Exact
<1>5. Exact("with_expression")
  <2>1. /\ "with_expression" \in DOMAIN Class
        /\ Visits["with_expression"] = <<"elements", "expression">>
    BY GroupsOfClasses DEF QueryVisits
  <2>2. /\ Class["with_expression"] = with_expression
        /\ MembersOf["with_expression"] = with_expression_members
    BY DEF Class, MembersOf
  <2>3. /\ OperandNames("with_expression") = {"elements", "expression"}
        /\ Data("with_expression") = {"is_recursive"}
    BY <2>2 DEF OperandNames, Data, Operands, Fields, with_expression
  <2>4. VisitExact("with_expression")
    <3>1. {m \in OperandNames("with_expression") :
              <<"with_expression", m>> \notin Promise!NotCounted \cup Barren}
             = {"elements", "expression"}
      BY <2>3 DEF Promise!NotCounted, Barren
    <3>2. Row(<<"elements", "expression">>, {"elements", "expression"})
      BY Row2
    <3> QED BY <2>1, <3>1, <3>2 DEF VisitExact
  <2>5. CopyExact("with_expression")
    BY <2>1, <2>2, <2>3
       DEF CopyExact, Copied, Compared, Ignored, Supplemental, Forgotten,
           Members, DeniesItself, with_expression_members
  <2>6. LeastExact("with_expression")
    BY <2>2 DEF LeastExact, Operands, Fields, with_expression
  <2> QED BY <2>4, <2>5, <2>6 DEF Exact
<1>6. Exact("select_column")
  <2>1. /\ "select_column" \in DOMAIN Class
        /\ Visits["select_column"] = <<"value", "name">>
    BY GroupsOfClasses DEF QueryVisits
  <2>2. /\ Class["select_column"] = select_column
        /\ MembersOf["select_column"] = select_column_members
    BY DEF Class, MembersOf
  <2>3. /\ OperandNames("select_column") = {"value", "name"}
        /\ Data("select_column") = {}
    BY <2>2 DEF OperandNames, Data, Operands, Fields, select_column
  <2>4. VisitExact("select_column")
    <3>1. {m \in OperandNames("select_column") :
              <<"select_column", m>> \notin Promise!NotCounted \cup Barren}
             = {"value", "name"}
      BY <2>3 DEF Promise!NotCounted, Barren
    <3>2. Row(<<"value", "name">>, {"value", "name"})
      BY Row2
    <3> QED BY <2>1, <3>1, <3>2 DEF VisitExact
  <2>5. CopyExact("select_column")
    BY <2>1, <2>2, <2>3
       DEF CopyExact, Copied, Compared, Ignored, Supplemental, Forgotten,
           Members, DeniesItself, select_column_members
  <2>6. LeastExact("select_column")
    BY <2>2 DEF LeastExact, Operands, Fields, select_column
  <2> QED BY <2>4, <2>5, <2>6 DEF Exact
<1>7. Exact("select_asterisk")
  <2>1. /\ "select_asterisk" \in DOMAIN Class
        /\ Visits["select_asterisk"] = <<"qualifier">>
    BY GroupsOfClasses DEF QueryVisits
  <2>2. /\ Class["select_asterisk"] = select_asterisk
        /\ MembersOf["select_asterisk"] = select_asterisk_members
    BY DEF Class, MembersOf
  <2>3. /\ OperandNames("select_asterisk") = {"qualifier"}
        /\ Data("select_asterisk") = {}
    BY <2>2 DEF OperandNames, Data, Operands, Fields, select_asterisk
  <2>4. VisitExact("select_asterisk")
    <3>1. {m \in OperandNames("select_asterisk") :
              <<"select_asterisk", m>> \notin Promise!NotCounted \cup Barren}
             = {"qualifier"}
      BY <2>3 DEF Promise!NotCounted, Barren
    <3>2. Row(<<"qualifier">>, {"qualifier"})
      BY Row1
    <3> QED BY <2>1, <3>1, <3>2 DEF VisitExact
  <2>5. CopyExact("select_asterisk")
    BY <2>1, <2>2, <2>3
       DEF CopyExact, Copied, Compared, Ignored, Supplemental, Forgotten,
           Members, DeniesItself, select_asterisk_members
  <2>6. LeastExact("select_asterisk")
    BY <2>2 DEF LeastExact, Operands, Fields, select_asterisk
  <2> QED BY <2>4, <2>5, <2>6 DEF Exact
<1>8. Exact("grouping_column")
  <2>1. /\ "grouping_column" \in DOMAIN Class
        /\ Visits["grouping_column"] = <<"column", "collation">>
    BY GroupsOfClasses DEF QueryVisits
  <2>2. /\ Class["grouping_column"] = grouping_column
        /\ MembersOf["grouping_column"] = grouping_column_members
    BY DEF Class, MembersOf
  <2>3. /\ OperandNames("grouping_column") = {"column", "collation"}
        /\ Data("grouping_column") = {}
    BY <2>2 DEF OperandNames, Data, Operands, Fields, grouping_column
  <2>4. VisitExact("grouping_column")
    <3>1. {m \in OperandNames("grouping_column") :
              <<"grouping_column", m>> \notin Promise!NotCounted \cup Barren}
             = {"column", "collation"}
      BY <2>3 DEF Promise!NotCounted, Barren
    <3>2. Row(<<"column", "collation">>, {"column", "collation"})
      BY Row2
    <3> QED BY <2>1, <3>1, <3>2 DEF VisitExact
  <2>5. CopyExact("grouping_column")
    BY <2>1, <2>2, <2>3
       DEF CopyExact, Copied, Compared, Ignored, Supplemental, Forgotten,
           Members, DeniesItself, grouping_column_members
  <2>6. LeastExact("grouping_column")
    BY <2>2 DEF LeastExact, Operands, Fields, grouping_column
  <2> QED BY <2>4, <2>5, <2>6 DEF Exact
<1> QED BY <1>1, <1>2, <1>3, <1>4, <1>5, <1>6, <1>7, <1>8 DEF QueryVisits

(* The table references, class by class.                                   *)
LEMMA TableClasses ==
    ASSUME NEW c \in DOMAIN TableVisits
    PROVE  Exact(c)
<1> USE DEF One, Optional, Many, Some, Datum
<1>1. Exact("table_table_reference")
  <2>1. /\ "table_table_reference" \in DOMAIN Class
        /\ Visits["table_table_reference"] = <<"name", "correlation">>
    BY GroupsOfClasses DEF TableVisits
  <2>2. /\ Class["table_table_reference"] = table_table_reference
        /\ MembersOf["table_table_reference"] = table_table_reference_members
    BY DEF Class, MembersOf
  <2>3. /\ OperandNames("table_table_reference") = {"name", "correlation"}
        /\ Data("table_table_reference") = {"is_only"}
    BY <2>2 DEF OperandNames, Data, Operands, Fields, table_table_reference
  <2>4. VisitExact("table_table_reference")
    <3>1. {m \in OperandNames("table_table_reference") :
              <<"table_table_reference", m>> \notin Promise!NotCounted \cup Barren}
             = {"name", "correlation"}
      BY <2>3 DEF Promise!NotCounted, Barren
    <3>2. Row(<<"name", "correlation">>, {"name", "correlation"})
      BY Row2
    <3> QED BY <2>1, <3>1, <3>2 DEF VisitExact
  <2>5. CopyExact("table_table_reference")
    BY <2>1, <2>2, <2>3
       DEF CopyExact, Copied, Compared, Ignored, Supplemental, Forgotten,
           MembersBut, table_table_reference_members
  <2>6. LeastExact("table_table_reference")
    BY <2>2 DEF LeastExact, Operands, Fields, table_table_reference
  <2> QED BY <2>4, <2>5, <2>6 DEF Exact
<1>2. Exact("unnest")
  <2>1. /\ "unnest" \in DOMAIN Class
        /\ Visits["unnest"] = <<"expression", "correlation">>
    BY GroupsOfClasses DEF TableVisits
  <2>2. /\ Class["unnest"] = unnest
        /\ MembersOf["unnest"] = unnest_members
    BY DEF Class, MembersOf
  <2>3. /\ OperandNames("unnest") = {"expression", "correlation"}
        /\ Data("unnest") = {"with_ordinality"}
    BY <2>2 DEF OperandNames, Data, Operands, Fields, unnest
  <2>4. VisitExact("unnest")
    <3>1. {m \in OperandNames("unnest") :
              <<"unnest", m>> \notin Promise!NotCounted \cup Barren}
             = {"expression", "correlation"}
      BY <2>3 DEF Promise!NotCounted, Barren
    <3>2. Row(<<"expression", "correlation">>, {"expression", "correlation"})
      BY Row2
    <3> QED BY <2>1, <3>1, <3>2 DEF VisitExact
  <2>5. CopyExact("unnest")
    BY <2>1, <2>2, <2>3
       DEF CopyExact, Copied, Compared, Ignored, Supplemental, Forgotten,
           Members, unnest_members
  <2>6. LeastExact("unnest")
    BY <2>2 DEF LeastExact, Operands, Fields, unnest
  <2> QED BY <2>4, <2>5, <2>6 DEF Exact
<1>3. Exact("join")
  <2>1. /\ "join" \in DOMAIN Class
        /\ Visits["join"] = <<"left", "right", "specification">>
    BY GroupsOfClasses DEF TableVisits
  <2>2. /\ Class["join"] = join
        /\ MembersOf["join"] = join_members
    BY DEF Class, MembersOf
  <2>3. /\ OperandNames("join") = {"left", "right", "specification"}
        /\ Data("join") = {"operator_kind"}
    BY <2>2 DEF OperandNames, Data, Operands, Fields, join
  <2>4. VisitExact("join")
    <3>1. {m \in OperandNames("join") :
              <<"join", m>> \notin Promise!NotCounted \cup Barren}
             = {"left", "right", "specification"}
      BY <2>3 DEF Promise!NotCounted, Barren
    <3>2. Row(<<"left", "right", "specification">>, {"left", "right", "specification"})
      BY Row3
    <3> QED BY <2>1, <3>1, <3>2 DEF VisitExact
  <2>5. CopyExact("join")
    BY <2>1, <2>2, <2>3
       DEF CopyExact, Copied, Compared, Ignored, Supplemental, Forgotten,
           Members, join_members
  <2>6. LeastExact("join")
    BY <2>2 DEF LeastExact, Operands, Fields, join
  <2> QED BY <2>4, <2>5, <2>6 DEF Exact
<1>4. Exact("table_subquery")
  <2>1. /\ "table_subquery" \in DOMAIN Class
        /\ Visits["table_subquery"] = <<"expression", "correlation">>
    BY GroupsOfClasses DEF TableVisits
  <2>2. /\ Class["table_subquery"] = table_subquery
        /\ MembersOf["table_subquery"] = table_subquery_members
    BY DEF Class, MembersOf
  <2>3. /\ OperandNames("table_subquery") = {"expression", "correlation"}
        /\ Data("table_subquery") = {"is_lateral"}
    BY <2>2 DEF OperandNames, Data, Operands, Fields, table_subquery
  <2>4. VisitExact("table_subquery")
    <3>1. {m \in OperandNames("table_subquery") :
              <<"table_subquery", m>> \notin Promise!NotCounted \cup Barren}
             = {"expression", "correlation"}
      BY <2>3 DEF Promise!NotCounted, Barren
    <3>2. Row(<<"expression", "correlation">>, {"expression", "correlation"})
      BY Row2
    <3> QED BY <2>1, <3>1, <3>2 DEF VisitExact
  <2>5. CopyExact("table_subquery")
    BY <2>1, <2>2, <2>3
       DEF CopyExact, Copied, Compared, Ignored, Supplemental, Forgotten,
           Members, table_subquery_members
  <2>6. LeastExact("table_subquery")
    BY <2>2 DEF LeastExact, Operands, Fields, table_subquery
  <2> QED BY <2>4, <2>5, <2>6 DEF Exact
<1>5. Exact("apply")
  <2>1. /\ "apply" \in DOMAIN Class
        /\ Visits["apply"] = <<"name", "arguments", "correlation">>
    BY GroupsOfClasses DEF TableVisits
  <2>2. /\ Class["apply"] = apply
        /\ MembersOf["apply"] = apply_members
    BY DEF Class, MembersOf
  <2>3. /\ OperandNames("apply") = {"operand", "name", "arguments", "correlation"}
        /\ Data("apply") = {"operator_kind"}
    BY <2>2 DEF OperandNames, Data, Operands, Fields, apply
  <2>4. VisitExact("apply")
    <3>1. {m \in OperandNames("apply") :
              <<"apply", m>> \notin Promise!NotCounted \cup Barren}
             = {"name", "arguments", "correlation"}
      BY <2>3 DEF Promise!NotCounted, Barren
    <3>2. Row(<<"name", "arguments", "correlation">>, {"name", "arguments", "correlation"})
      BY Row3
    <3> QED BY <2>1, <3>1, <3>2 DEF VisitExact
  <2>5. CopyExact("apply")
    BY <2>1, <2>2, <2>3
       DEF CopyExact, Copied, Compared, Ignored, Supplemental, Forgotten,
           MembersBut, apply_members
  <2>6. LeastExact("apply")
    BY <2>2 DEF LeastExact, Operands, Fields, apply
  <2> QED BY <2>4, <2>5, <2>6 DEF Exact
<1>6. Exact("join_condition")
  <2>1. /\ "join_condition" \in DOMAIN Class
        /\ Visits["join_condition"] = <<"expression">>
    BY GroupsOfClasses DEF TableVisits
  <2>2. /\ Class["join_condition"] = join_condition
        /\ MembersOf["join_condition"] = join_condition_members
    BY DEF Class, MembersOf
  <2>3. /\ OperandNames("join_condition") = {"expression"}
        /\ Data("join_condition") = {}
    BY <2>2 DEF OperandNames, Data, Operands, Fields, join_condition
  <2>4. VisitExact("join_condition")
    <3>1. {m \in OperandNames("join_condition") :
              <<"join_condition", m>> \notin Promise!NotCounted \cup Barren}
             = {"expression"}
      BY <2>3 DEF Promise!NotCounted, Barren
    <3>2. Row(<<"expression">>, {"expression"})
      BY Row1
    <3> QED BY <2>1, <3>1, <3>2 DEF VisitExact
  <2>5. CopyExact("join_condition")
    BY <2>1, <2>2, <2>3
       DEF CopyExact, Copied, Compared, Ignored, Supplemental, Forgotten,
           Members, DeniesItself, join_condition_members
  <2>6. LeastExact("join_condition")
    BY <2>2 DEF LeastExact, Operands, Fields, join_condition
  <2> QED BY <2>4, <2>5, <2>6 DEF Exact
<1>7. Exact("join_columns")
  <2>1. /\ "join_columns" \in DOMAIN Class
        /\ Visits["join_columns"] = <<"columns">>
    BY GroupsOfClasses DEF TableVisits
  <2>2. /\ Class["join_columns"] = join_columns
        /\ MembersOf["join_columns"] = join_columns_members
    BY DEF Class, MembersOf
  <2>3. /\ OperandNames("join_columns") = {"columns"}
        /\ Data("join_columns") = {}
    BY <2>2 DEF OperandNames, Data, Operands, Fields, join_columns
  <2>4. VisitExact("join_columns")
    <3>1. {m \in OperandNames("join_columns") :
              <<"join_columns", m>> \notin Promise!NotCounted \cup Barren}
             = {"columns"}
      BY <2>3 DEF Promise!NotCounted, Barren
    <3>2. Row(<<"columns">>, {"columns"})
      BY Row1
    <3> QED BY <2>1, <3>1, <3>2 DEF VisitExact
  <2>5. CopyExact("join_columns")
    BY <2>1, <2>2, <2>3
       DEF CopyExact, Copied, Compared, Ignored, Supplemental, Forgotten,
           Members, DeniesItself, join_columns_members
  <2>6. LeastExact("join_columns")
    BY <2>2 DEF LeastExact, Operands, Fields, join_columns
  <2> QED BY <2>4, <2>5, <2>6 DEF Exact
<1> QED BY <1>1, <1>2, <1>3, <1>4, <1>5, <1>6, <1>7 DEF TableVisits

(* The scalar expressions, class by class.                                 *)
LEMMA ScalarClasses ==
    ASSUME NEW c \in DOMAIN ScalarVisits
    PROVE  Exact(c)
<1> USE DEF One, Optional, Many, Some, Datum
<1>1. Exact("literal_expression")
  <2>1. /\ "literal_expression" \in DOMAIN Class
        /\ Visits["literal_expression"] = <<"value">>
    BY GroupsOfClasses DEF ScalarVisits
  <2>2. /\ Class["literal_expression"] = literal_expression
        /\ MembersOf["literal_expression"] = literal_expression_members
    BY DEF Class, MembersOf
  <2>3. /\ OperandNames("literal_expression") = {"value"}
        /\ Data("literal_expression") = {}
    BY <2>2 DEF OperandNames, Data, Operands, Fields, literal_expression
  <2>4. VisitExact("literal_expression")
    <3>1. {m \in OperandNames("literal_expression") :
              <<"literal_expression", m>> \notin Promise!NotCounted \cup Barren}
             = {"value"}
      BY <2>3 DEF Promise!NotCounted, Barren
    <3>2. Row(<<"value">>, {"value"})
      BY Row1
    <3> QED BY <2>1, <3>1, <3>2 DEF VisitExact
  <2>5. CopyExact("literal_expression")
    BY <2>1, <2>2, <2>3
       DEF CopyExact, Copied, Compared, Ignored, Supplemental, Forgotten,
           Members, DeniesItself, literal_expression_members
  <2>6. LeastExact("literal_expression")
    BY <2>2 DEF LeastExact, Operands, Fields, literal_expression
  <2> QED BY <2>4, <2>5, <2>6 DEF Exact
<1>2. Exact("variable_reference")
  <2>1. /\ "variable_reference" \in DOMAIN Class
        /\ Visits["variable_reference"] = <<"name">>
    BY GroupsOfClasses DEF ScalarVisits
  <2>2. /\ Class["variable_reference"] = variable_reference
        /\ MembersOf["variable_reference"] = variable_reference_members
    BY DEF Class, MembersOf
  <2>3. /\ OperandNames("variable_reference") = {"name"}
        /\ Data("variable_reference") = {}
    BY <2>2 DEF OperandNames, Data, Operands, Fields, variable_reference
  <2>4. VisitExact("variable_reference")
    <3>1. {m \in OperandNames("variable_reference") :
              <<"variable_reference", m>> \notin Promise!NotCounted \cup Barren}
             = {"name"}
      BY <2>3 DEF Promise!NotCounted, Barren
    <3>2. Row(<<"name">>, {"name"})
      BY Row1
    <3> QED BY <2>1, <3>1, <3>2 DEF VisitExact
  <2>5. CopyExact("variable_reference")
    BY <2>1, <2>2, <2>3
       DEF CopyExact, Copied, Compared, Ignored, Supplemental, Forgotten,
           Members, DeniesItself, variable_reference_members
  <2>6. LeastExact("variable_reference")
    BY <2>2 DEF LeastExact, Operands, Fields, variable_reference
  <2> QED BY <2>4, <2>5, <2>6 DEF Exact
<1>3. Exact("host_parameter_reference")
  <2>1. /\ "host_parameter_reference" \in DOMAIN Class
        /\ Visits["host_parameter_reference"] = <<"name">>
    BY GroupsOfClasses DEF ScalarVisits
  <2>2. /\ Class["host_parameter_reference"] = host_parameter_reference
        /\ MembersOf["host_parameter_reference"] = host_parameter_reference_members
    BY DEF Class, MembersOf
  <2>3. /\ OperandNames("host_parameter_reference") = {"name"}
        /\ Data("host_parameter_reference") = {}
    BY <2>2 DEF OperandNames, Data, Operands, Fields, host_parameter_reference
  <2>4. VisitExact("host_parameter_reference")
    <3>1. {m \in OperandNames("host_parameter_reference") :
              <<"host_parameter_reference", m>> \notin Promise!NotCounted \cup Barren}
             = {"name"}
      BY <2>3 DEF Promise!NotCounted, Barren
    <3>2. Row(<<"name">>, {"name"})
      BY Row1
    <3> QED BY <2>1, <3>1, <3>2 DEF VisitExact
  <2>5. CopyExact("host_parameter_reference")
    BY <2>1, <2>2, <2>3
       DEF CopyExact, Copied, Compared, Ignored, Supplemental, Forgotten,
           Members, DeniesItself, host_parameter_reference_members
  <2>6. LeastExact("host_parameter_reference")
    BY <2>2 DEF LeastExact, Operands, Fields, host_parameter_reference
  <2> QED BY <2>4, <2>5, <2>6 DEF Exact
<1>4. Exact("field_reference")
  <2>1. /\ "field_reference" \in DOMAIN Class
        /\ Visits["field_reference"] = <<"value", "name">>
    BY GroupsOfClasses DEF ScalarVisits
  <2>2. /\ Class["field_reference"] = field_reference
        /\ MembersOf["field_reference"] = field_reference_members
    BY DEF Class, MembersOf
  <2>3. /\ OperandNames("field_reference") = {"value", "name"}
        /\ Data("field_reference") = {"operator_kind"}
    BY <2>2 DEF OperandNames, Data, Operands, Fields, field_reference
  <2>4. VisitExact("field_reference")
    <3>1. {m \in OperandNames("field_reference") :
              <<"field_reference", m>> \notin Promise!NotCounted \cup Barren}
             = {"value", "name"}
      BY <2>3 DEF Promise!NotCounted, Barren
    <3>2. Row(<<"value", "name">>, {"value", "name"})
      BY Row2
    <3> QED BY <2>1, <3>1, <3>2 DEF VisitExact
  <2>5. CopyExact("field_reference")
    BY <2>1, <2>2, <2>3
       DEF CopyExact, Copied, Compared, Ignored, Supplemental, Forgotten,
           Members, DeniesItself, field_reference_members
  <2>6. LeastExact("field_reference")
    BY <2>2 DEF LeastExact, Operands, Fields, field_reference
  <2> QED BY <2>4, <2>5, <2>6 DEF Exact
<1>5. Exact("case_expression")
  <2>1. /\ "case_expression" \in DOMAIN Class
        /\ Visits["case_expression"] = <<"operand", "when_clauses", "default_result">>
    BY GroupsOfClasses DEF ScalarVisits
  <2>2. /\ Class["case_expression"] = case_expression
        /\ MembersOf["case_expression"] = case_expression_members
    BY DEF Class, MembersOf
  <2>3. /\ OperandNames("case_expression") = {"operand", "when_clauses", "default_result"}
        /\ Data("case_expression") = {}
    BY <2>2 DEF OperandNames, Data, Operands, Fields, case_expression
  <2>4. VisitExact("case_expression")
    <3>1. {m \in OperandNames("case_expression") :
              <<"case_expression", m>> \notin Promise!NotCounted \cup Barren}
             = {"operand", "when_clauses", "default_result"}
      BY <2>3 DEF Promise!NotCounted, Barren
    <3>2. Row(<<"operand", "when_clauses", "default_result">>, {"operand", "when_clauses", "default_result"})
      BY Row3
    <3> QED BY <2>1, <3>1, <3>2 DEF VisitExact
  <2>5. CopyExact("case_expression")
    BY <2>1, <2>2, <2>3
       DEF CopyExact, Copied, Compared, Ignored, Supplemental, Forgotten,
           Members, DeniesItself, case_expression_members
  <2>6. LeastExact("case_expression")
    BY <2>2 DEF LeastExact, Operands, Fields, case_expression
  <2> QED BY <2>4, <2>5, <2>6 DEF Exact
<1>6. Exact("cast_expression")
  <2>1. /\ "cast_expression" \in DOMAIN Class
        /\ Visits["cast_expression"] = <<"operand", "type">>
    BY GroupsOfClasses DEF ScalarVisits
  <2>2. /\ Class["cast_expression"] = cast_expression
        /\ MembersOf["cast_expression"] = cast_expression_members
    BY DEF Class, MembersOf
  <2>3. /\ OperandNames("cast_expression") = {"operand", "type"}
        /\ Data("cast_expression") = {"operator_kind"}
    BY <2>2 DEF OperandNames, Data, Operands, Fields, cast_expression
  <2>4. VisitExact("cast_expression")
    <3>1. {m \in OperandNames("cast_expression") :
              <<"cast_expression", m>> \notin Promise!NotCounted \cup Barren}
             = {"operand", "type"}
      BY <2>3 DEF Promise!NotCounted, Barren
    <3>2. Row(<<"operand", "type">>, {"operand", "type"})
      BY Row2
    <3> QED BY <2>1, <3>1, <3>2 DEF VisitExact
  <2>5. CopyExact("cast_expression")
    BY <2>1, <2>2, <2>3
       DEF CopyExact, Copied, Compared, Ignored, Supplemental, Forgotten,
           Members, DeniesItself, cast_expression_members
  <2>6. LeastExact("cast_expression")
    BY <2>2 DEF LeastExact, Operands, Fields, cast_expression
  <2> QED BY <2>4, <2>5, <2>6 DEF Exact
<1>7. Exact("unary_expression")
  <2>1. /\ "unary_expression" \in DOMAIN Class
        /\ Visits["unary_expression"] = <<"operand">>
    BY GroupsOfClasses DEF ScalarVisits
  <2>2. /\ Class["unary_expression"] = unary_expression
        /\ MembersOf["unary_expression"] = unary_expression_members
    BY DEF Class, MembersOf
  <2>3. /\ OperandNames("unary_expression") = {"operand"}
        /\ Data("unary_expression") = {"operator_kind"}
    BY <2>2 DEF OperandNames, Data, Operands, Fields, unary_expression
  <2>4. VisitExact("unary_expression")
    <3>1. {m \in OperandNames("unary_expression") :
              <<"unary_expression", m>> \notin Promise!NotCounted \cup Barren}
             = {"operand"}
      BY <2>3 DEF Promise!NotCounted, Barren
    <3>2. Row(<<"operand">>, {"operand"})
      BY Row1
    <3> QED BY <2>1, <3>1, <3>2 DEF VisitExact
  <2>5. CopyExact("unary_expression")
    BY <2>1, <2>2, <2>3
       DEF CopyExact, Copied, Compared, Ignored, Supplemental, Forgotten,
           Members, DeniesItself, unary_expression_members
  <2>6. LeastExact("unary_expression")
    BY <2>2 DEF LeastExact, Operands, Fields, unary_expression
  <2> QED BY <2>4, <2>5, <2>6 DEF Exact
<1>8. Exact("scalar_binary_expression")
  <2>1. /\ "scalar_binary_expression" \in DOMAIN Class
        /\ Visits["scalar_binary_expression"] = <<"left", "right">>
    BY GroupsOfClasses DEF ScalarVisits
  <2>2. /\ Class["scalar_binary_expression"] = scalar_binary_expression
        /\ MembersOf["scalar_binary_expression"] = scalar_binary_expression_members
    BY DEF Class, MembersOf
  <2>3. /\ OperandNames("scalar_binary_expression") = {"left", "right"}
        /\ Data("scalar_binary_expression") = {"operator_kind"}
    BY <2>2 DEF OperandNames, Data, Operands, Fields, scalar_binary_expression
  <2>4. VisitExact("scalar_binary_expression")
    <3>1. {m \in OperandNames("scalar_binary_expression") :
              <<"scalar_binary_expression", m>> \notin Promise!NotCounted \cup Barren}
             = {"left", "right"}
      BY <2>3 DEF Promise!NotCounted, Barren
    <3>2. Row(<<"left", "right">>, {"left", "right"})
      BY Row2
    <3> QED BY <2>1, <3>1, <3>2 DEF VisitExact
  <2>5. CopyExact("scalar_binary_expression")
    BY <2>1, <2>2, <2>3
       DEF CopyExact, Copied, Compared, Ignored, Supplemental, Forgotten,
           Members, DeniesItself, scalar_binary_expression_members
  <2>6. LeastExact("scalar_binary_expression")
    BY <2>2 DEF LeastExact, Operands, Fields, scalar_binary_expression
  <2> QED BY <2>4, <2>5, <2>6 DEF Exact
<1>9. Exact("extract_expression")
  <2>1. /\ "extract_expression" \in DOMAIN Class
        /\ Visits["extract_expression"] = <<"operand">>
    BY GroupsOfClasses DEF ScalarVisits
  <2>2. /\ Class["extract_expression"] = extract_expression
        /\ MembersOf["extract_expression"] = extract_expression_members
    BY DEF Class, MembersOf
  <2>3. /\ OperandNames("extract_expression") = {"operand"}
        /\ Data("extract_expression") = {"field", "subsecond_digits"}
    BY <2>2 DEF OperandNames, Data, Operands, Fields, extract_expression
  <2>4. VisitExact("extract_expression")
    <3>1. {m \in OperandNames("extract_expression") :
              <<"extract_expression", m>> \notin Promise!NotCounted \cup Barren}
             = {"operand"}
      BY <2>3 DEF Promise!NotCounted, Barren
    <3>2. Row(<<"operand">>, {"operand"})
      BY Row1
    <3> QED BY <2>1, <3>1, <3>2 DEF VisitExact
  <2>5. CopyExact("extract_expression")
    BY <2>1, <2>2, <2>3
       DEF CopyExact, Copied, Compared, Ignored, Supplemental, Forgotten,
           Members, DeniesItself, extract_expression_members
  <2>6. LeastExact("extract_expression")
    BY <2>2 DEF LeastExact, Operands, Fields, extract_expression
  <2> QED BY <2>4, <2>5, <2>6 DEF Exact
<1>10. Exact("trim_expression")
  <2>1. /\ "trim_expression" \in DOMAIN Class
        /\ Visits["trim_expression"] = <<"character", "source">>
    BY GroupsOfClasses DEF ScalarVisits
  <2>2. /\ Class["trim_expression"] = trim_expression
        /\ MembersOf["trim_expression"] = trim_expression_members
    BY DEF Class, MembersOf
  <2>3. /\ OperandNames("trim_expression") = {"character", "source"}
        /\ Data("trim_expression") = {"specification"}
    BY <2>2 DEF OperandNames, Data, Operands, Fields, trim_expression
  <2>4. VisitExact("trim_expression")
    <3>1. {m \in OperandNames("trim_expression") :
              <<"trim_expression", m>> \notin Promise!NotCounted \cup Barren}
             = {"character", "source"}
      BY <2>3 DEF Promise!NotCounted, Barren
    <3>2. Row(<<"character", "source">>, {"character", "source"})
      BY Row2
    <3> QED BY <2>1, <3>1, <3>2 DEF VisitExact
  <2>5. CopyExact("trim_expression")
    BY <2>1, <2>2, <2>3
       DEF CopyExact, Copied, Compared, Ignored, Supplemental, Forgotten,
           Members, DeniesItself, trim_expression_members
  <2>6. LeastExact("trim_expression")
    BY <2>2 DEF LeastExact, Operands, Fields, trim_expression
  <2> QED BY <2>4, <2>5, <2>6 DEF Exact
<1>11. Exact("value_constructor")
  <2>1. /\ "value_constructor" \in DOMAIN Class
        /\ Visits["value_constructor"] = <<"elements">>
    BY GroupsOfClasses DEF ScalarVisits
  <2>2. /\ Class["value_constructor"] = value_constructor
        /\ MembersOf["value_constructor"] = value_constructor_members
    BY DEF Class, MembersOf
  <2>3. /\ OperandNames("value_constructor") = {"elements"}
        /\ Data("value_constructor") = {"operator_kind"}
    BY <2>2 DEF OperandNames, Data, Operands, Fields, value_constructor
  <2>4. VisitExact("value_constructor")
    <3>1. {m \in OperandNames("value_constructor") :
              <<"value_constructor", m>> \notin Promise!NotCounted \cup Barren}
             = {"elements"}
      BY <2>3 DEF Promise!NotCounted, Barren
    <3>2. Row(<<"elements">>, {"elements"})
      BY Row1
    <3> QED BY <2>1, <3>1, <3>2 DEF VisitExact
  <2>5. CopyExact("value_constructor")
    BY <2>1, <2>2, <2>3
       DEF CopyExact, Copied, Compared, Ignored, Supplemental, Forgotten,
           Members, DeniesItself, value_constructor_members
  <2>6. LeastExact("value_constructor")
    BY <2>2 DEF LeastExact, Operands, Fields, value_constructor
  <2> QED BY <2>4, <2>5, <2>6 DEF Exact
<1>12. Exact("scalar_subquery")
  <2>1. /\ "scalar_subquery" \in DOMAIN Class
        /\ Visits["scalar_subquery"] = <<"query">>
    BY GroupsOfClasses DEF ScalarVisits
  <2>2. /\ Class["scalar_subquery"] = scalar_subquery
        /\ MembersOf["scalar_subquery"] = scalar_subquery_members
    BY DEF Class, MembersOf
  <2>3. /\ OperandNames("scalar_subquery") = {"query"}
        /\ Data("scalar_subquery") = {"context_kind"}
    BY <2>2 DEF OperandNames, Data, Operands, Fields, scalar_subquery
  <2>4. VisitExact("scalar_subquery")
    <3>1. {m \in OperandNames("scalar_subquery") :
              <<"scalar_subquery", m>> \notin Promise!NotCounted \cup Barren}
             = {"query"}
      BY <2>3 DEF Promise!NotCounted, Barren
    <3>2. Row(<<"query">>, {"query"})
      BY Row1
    <3> QED BY <2>1, <3>1, <3>2 DEF VisitExact
  <2>5. CopyExact("scalar_subquery")
    BY <2>1, <2>2, <2>3
       DEF CopyExact, Copied, Compared, Ignored, Supplemental, Forgotten,
           Members, DeniesItself, scalar_subquery_members
  <2>6. LeastExact("scalar_subquery")
    BY <2>2 DEF LeastExact, Operands, Fields, scalar_subquery
  <2> QED BY <2>4, <2>5, <2>6 DEF Exact
<1>13. Exact("comparison_predicate")
  <2>1. /\ "comparison_predicate" \in DOMAIN Class
        /\ Visits["comparison_predicate"] = <<"left", "right">>
    BY GroupsOfClasses DEF ScalarVisits
  <2>2. /\ Class["comparison_predicate"] = comparison_predicate
        /\ MembersOf["comparison_predicate"] = comparison_predicate_members
    BY DEF Class, MembersOf
  <2>3. /\ OperandNames("comparison_predicate") = {"left", "right"}
        /\ Data("comparison_predicate") = {"operator_kind"}
    BY <2>2 DEF OperandNames, Data, Operands, Fields, comparison_predicate
  <2>4. VisitExact("comparison_predicate")
    <3>1. {m \in OperandNames("comparison_predicate") :
              <<"comparison_predicate", m>> \notin Promise!NotCounted \cup Barren}
             = {"left", "right"}
      BY <2>3 DEF Promise!NotCounted, Barren
    <3>2. Row(<<"left", "right">>, {"left", "right"})
      BY Row2
    <3> QED BY <2>1, <3>1, <3>2 DEF VisitExact
  <2>5. CopyExact("comparison_predicate")
    BY <2>1, <2>2, <2>3
       DEF CopyExact, Copied, Compared, Ignored, Supplemental, Forgotten,
           Members, DeniesItself, comparison_predicate_members
  <2>6. LeastExact("comparison_predicate")
    BY <2>2 DEF LeastExact, Operands, Fields, comparison_predicate
  <2> QED BY <2>4, <2>5, <2>6 DEF Exact
<1>14. Exact("quantified_comparison_predicate")
  <2>1. /\ "quantified_comparison_predicate" \in DOMAIN Class
        /\ Visits["quantified_comparison_predicate"] = <<"left", "right">>
    BY GroupsOfClasses DEF ScalarVisits
  <2>2. /\ Class["quantified_comparison_predicate"] = quantified_comparison_predicate
        /\ MembersOf["quantified_comparison_predicate"] = quantified_comparison_predicate_members
    BY DEF Class, MembersOf
  <2>3. /\ OperandNames("quantified_comparison_predicate") = {"left", "right"}
        /\ Data("quantified_comparison_predicate") = {"operator_kind", "quantifier"}
    BY <2>2 DEF OperandNames, Data, Operands, Fields, quantified_comparison_predicate
  <2>4. VisitExact("quantified_comparison_predicate")
    <3>1. {m \in OperandNames("quantified_comparison_predicate") :
              <<"quantified_comparison_predicate", m>> \notin Promise!NotCounted \cup Barren}
             = {"left", "right"}
      BY <2>3 DEF Promise!NotCounted, Barren
    <3>2. Row(<<"left", "right">>, {"left", "right"})
      BY Row2
    <3> QED BY <2>1, <3>1, <3>2 DEF VisitExact
  <2>5. CopyExact("quantified_comparison_predicate")
    BY <2>1, <2>2, <2>3
       DEF CopyExact, Copied, Compared, Ignored, Supplemental, Forgotten,
           Members, DeniesItself, quantified_comparison_predicate_members
  <2>6. LeastExact("quantified_comparison_predicate")
    BY <2>2 DEF LeastExact, Operands, Fields, quantified_comparison_predicate
  <2> QED BY <2>4, <2>5, <2>6 DEF Exact
<1>15. Exact("between_predicate")
  <2>1. /\ "between_predicate" \in DOMAIN Class
        /\ Visits["between_predicate"] = <<"target", "left", "right">>
    BY GroupsOfClasses DEF ScalarVisits
  <2>2. /\ Class["between_predicate"] = between_predicate
        /\ MembersOf["between_predicate"] = between_predicate_members
    BY DEF Class, MembersOf
  <2>3. /\ OperandNames("between_predicate") = {"target", "left", "right"}
        /\ Data("between_predicate") = {"is_not", "operator_kind"}
    BY <2>2 DEF OperandNames, Data, Operands, Fields, between_predicate
  <2>4. VisitExact("between_predicate")
    <3>1. {m \in OperandNames("between_predicate") :
              <<"between_predicate", m>> \notin Promise!NotCounted \cup Barren}
             = {"target", "left", "right"}
      BY <2>3 DEF Promise!NotCounted, Barren
    <3>2. Row(<<"target", "left", "right">>, {"target", "left", "right"})
      BY Row3
    <3> QED BY <2>1, <3>1, <3>2 DEF VisitExact
  <2>5. CopyExact("between_predicate")
    BY <2>1, <2>2, <2>3
       DEF CopyExact, Copied, Compared, Ignored, Supplemental, Forgotten,
           Members, DeniesItself, between_predicate_members
  <2>6. LeastExact("between_predicate")
    BY <2>2 DEF LeastExact, Operands, Fields, between_predicate
  <2> QED BY <2>4, <2>5, <2>6 DEF Exact
<1>16. Exact("in_predicate")
  <2>1. /\ "in_predicate" \in DOMAIN Class
        /\ Visits["in_predicate"] = <<"left", "right">>
    BY GroupsOfClasses DEF ScalarVisits
  <2>2. /\ Class["in_predicate"] = in_predicate
        /\ MembersOf["in_predicate"] = in_predicate_members
    BY DEF Class, MembersOf
  <2>3. /\ OperandNames("in_predicate") = {"left", "right"}
        /\ Data("in_predicate") = {"is_not"}
    BY <2>2 DEF OperandNames, Data, Operands, Fields, in_predicate
  <2>4. VisitExact("in_predicate")
    <3>1. {m \in OperandNames("in_predicate") :
              <<"in_predicate", m>> \notin Promise!NotCounted \cup Barren}
             = {"left", "right"}
      BY <2>3 DEF Promise!NotCounted, Barren
    <3>2. Row(<<"left", "right">>, {"left", "right"})
      BY Row2
    <3> QED BY <2>1, <3>1, <3>2 DEF VisitExact
  <2>5. CopyExact("in_predicate")
    BY <2>1, <2>2, <2>3
       DEF CopyExact, Copied, Compared, Ignored, Supplemental, Forgotten,
           Members, DeniesItself, in_predicate_members
  <2>6. LeastExact("in_predicate")
    BY <2>2 DEF LeastExact, Operands, Fields, in_predicate
  <2> QED BY <2>4, <2>5, <2>6 DEF Exact
<1>17. Exact("pattern_match_predicate")
  <2>1. /\ "pattern_match_predicate" \in DOMAIN Class
        /\ Visits["pattern_match_predicate"] = <<"match_value", "pattern", "escape">>
    BY GroupsOfClasses DEF ScalarVisits
  <2>2. /\ Class["pattern_match_predicate"] = pattern_match_predicate
        /\ MembersOf["pattern_match_predicate"] = pattern_match_predicate_members
    BY DEF Class, MembersOf
  <2>3. /\ OperandNames("pattern_match_predicate") = {"match_value", "pattern", "escape"}
        /\ Data("pattern_match_predicate") = {"is_not", "operator_kind"}
    BY <2>2 DEF OperandNames, Data, Operands, Fields, pattern_match_predicate
  <2>4. VisitExact("pattern_match_predicate")
    <3>1. {m \in OperandNames("pattern_match_predicate") :
              <<"pattern_match_predicate", m>> \notin Promise!NotCounted \cup Barren}
             = {"match_value", "pattern", "escape"}
      BY <2>3 DEF Promise!NotCounted, Barren
    <3>2. Row(<<"match_value", "pattern", "escape">>, {"match_value", "pattern", "escape"})
      BY Row3
    <3> QED BY <2>1, <3>1, <3>2 DEF VisitExact
  <2>5. CopyExact("pattern_match_predicate")
    BY <2>1, <2>2, <2>3
       DEF CopyExact, Copied, Compared, Ignored, Supplemental, Forgotten,
           Members, DeniesItself, pattern_match_predicate_members
  <2>6. LeastExact("pattern_match_predicate")
    BY <2>2 DEF LeastExact, Operands, Fields, pattern_match_predicate
  <2> QED BY <2>4, <2>5, <2>6 DEF Exact
<1>18. Exact("table_predicate")
  <2>1. /\ "table_predicate" \in DOMAIN Class
        /\ Visits["table_predicate"] = <<"operand">>
    BY GroupsOfClasses DEF ScalarVisits
  <2>2. /\ Class["table_predicate"] = table_predicate
        /\ MembersOf["table_predicate"] = table_predicate_members
    BY DEF Class, MembersOf
  <2>3. /\ OperandNames("table_predicate") = {"operand"}
        /\ Data("table_predicate") = {"operator_kind"}
    BY <2>2 DEF OperandNames, Data, Operands, Fields, table_predicate
  <2>4. VisitExact("table_predicate")
    <3>1. {m \in OperandNames("table_predicate") :
              <<"table_predicate", m>> \notin Promise!NotCounted \cup Barren}
             = {"operand"}
      BY <2>3 DEF Promise!NotCounted, Barren
    <3>2. Row(<<"operand">>, {"operand"})
      BY Row1
    <3> QED BY <2>1, <3>1, <3>2 DEF VisitExact
  <2>5. CopyExact("table_predicate")
    BY <2>1, <2>2, <2>3
       DEF CopyExact, Copied, Compared, Ignored, Supplemental, Forgotten,
           Members, DeniesItself, table_predicate_members
  <2>6. LeastExact("table_predicate")
    BY <2>2 DEF LeastExact, Operands, Fields, table_predicate
  <2> QED BY <2>4, <2>5, <2>6 DEF Exact
<1> QED BY <1>1, <1>2, <1>3, <1>4, <1>5, <1>6, <1>7, <1>8, <1>9, <1>10, <1>11,
           <1>12, <1>13, <1>14, <1>15, <1>16, <1>17, <1>18 DEF ScalarVisits

(* The invocations of functions and methods, class by class.               *)
LEMMA InvocationClasses ==
    ASSUME NEW c \in DOMAIN InvocationVisits
    PROVE  Exact(c)
<1> USE DEF One, Optional, Many, Some, Datum
<1>1. Exact("function_invocation")
  <2>1. /\ "function_invocation" \in DOMAIN Class
        /\ Visits["function_invocation"] = <<"arguments">>
    BY GroupsOfClasses DEF InvocationVisits
  <2>2. /\ Class["function_invocation"] = function_invocation
        /\ MembersOf["function_invocation"] = function_invocation_members
    BY DEF Class, MembersOf
  <2>3. /\ OperandNames("function_invocation") = {"name", "arguments"}
        /\ Data("function_invocation") = {}
    BY <2>2 DEF OperandNames, Data, Operands, Fields, function_invocation
  <2>4. VisitExact("function_invocation")
    <3>1. {m \in OperandNames("function_invocation") :
              <<"function_invocation", m>> \notin Promise!NotCounted \cup Barren}
             = {"arguments"}
      BY <2>3 DEF Promise!NotCounted, Barren
    <3>2. Row(<<"arguments">>, {"arguments"})
      BY Row1
    <3> QED BY <2>1, <3>1, <3>2 DEF VisitExact
  <2>5. CopyExact("function_invocation")
    BY <2>1, <2>2, <2>3
       DEF CopyExact, Copied, Compared, Ignored, Supplemental, Forgotten,
           Members, DeniesItself, function_invocation_members
  <2>6. LeastExact("function_invocation")
    BY <2>2 DEF LeastExact, Operands, Fields, function_invocation
  <2> QED BY <2>4, <2>5, <2>6 DEF Exact
<1>2. Exact("builtin_function_invocation")
  <2>1. /\ "builtin_function_invocation" \in DOMAIN Class
        /\ Visits["builtin_function_invocation"] = <<"arguments">>
    BY GroupsOfClasses DEF InvocationVisits
  <2>2. /\ Class["builtin_function_invocation"] = builtin_function_invocation
        /\ MembersOf["builtin_function_invocation"] = builtin_function_invocation_members
    BY DEF Class, MembersOf
  <2>3. /\ OperandNames("builtin_function_invocation") = {"arguments"}
        /\ Data("builtin_function_invocation") = {"function"}
    BY <2>2 DEF OperandNames, Data, Operands, Fields, builtin_function_invocation
  <2>4. VisitExact("builtin_function_invocation")
    <3>1. {m \in OperandNames("builtin_function_invocation") :
              <<"builtin_function_invocation", m>> \notin Promise!NotCounted \cup Barren}
             = {"arguments"}
      BY <2>3 DEF Promise!NotCounted, Barren
    <3>2. Row(<<"arguments">>, {"arguments"})
      BY Row1
    <3> QED BY <2>1, <3>1, <3>2 DEF VisitExact
  <2>5. CopyExact("builtin_function_invocation")
    BY <2>1, <2>2, <2>3
       DEF CopyExact, Copied, Compared, Ignored, Supplemental, Forgotten,
           Members, DeniesItself, builtin_function_invocation_members
  <2>6. LeastExact("builtin_function_invocation")
    BY <2>2 DEF LeastExact, Operands, Fields, builtin_function_invocation
  <2> QED BY <2>4, <2>5, <2>6 DEF Exact
<1>3. Exact("builtin_set_function_invocation")
  <2>1. /\ "builtin_set_function_invocation" \in DOMAIN Class
        /\ Visits["builtin_set_function_invocation"] = <<"arguments">>
    BY GroupsOfClasses DEF InvocationVisits
  <2>2. /\ Class["builtin_set_function_invocation"] = builtin_set_function_invocation
        /\ MembersOf["builtin_set_function_invocation"] = builtin_set_function_invocation_members
    BY DEF Class, MembersOf
  <2>3. /\ OperandNames("builtin_set_function_invocation") = {"arguments"}
        /\ Data("builtin_set_function_invocation") = {"function", "quantifier"}
    BY <2>2 DEF OperandNames, Data, Operands, Fields, builtin_set_function_invocation
  <2>4. VisitExact("builtin_set_function_invocation")
    <3>1. {m \in OperandNames("builtin_set_function_invocation") :
              <<"builtin_set_function_invocation", m>> \notin Promise!NotCounted \cup Barren}
             = {"arguments"}
      BY <2>3 DEF Promise!NotCounted, Barren
    <3>2. Row(<<"arguments">>, {"arguments"})
      BY Row1
    <3> QED BY <2>1, <3>1, <3>2 DEF VisitExact
  <2>5. CopyExact("builtin_set_function_invocation")
    BY <2>1, <2>2, <2>3
       DEF CopyExact, Copied, Compared, Ignored, Supplemental, Forgotten,
           Members, DeniesItself, builtin_set_function_invocation_members
  <2>6. LeastExact("builtin_set_function_invocation")
    BY <2>2 DEF LeastExact, Operands, Fields, builtin_set_function_invocation
  <2> QED BY <2>4, <2>5, <2>6 DEF Exact
<1>4. Exact("new_invocation")
  <2>1. /\ "new_invocation" \in DOMAIN Class
        /\ Visits["new_invocation"] = <<"type", "arguments">>
    BY GroupsOfClasses DEF InvocationVisits
  <2>2. /\ Class["new_invocation"] = new_invocation
        /\ MembersOf["new_invocation"] = new_invocation_members
    BY DEF Class, MembersOf
  <2>3. /\ OperandNames("new_invocation") = {"type", "arguments"}
        /\ Data("new_invocation") = {}
    BY <2>2 DEF OperandNames, Data, Operands, Fields, new_invocation
  <2>4. VisitExact("new_invocation")
    <3>1. {m \in OperandNames("new_invocation") :
              <<"new_invocation", m>> \notin Promise!NotCounted \cup Barren}
             = {"type", "arguments"}
      BY <2>3 DEF Promise!NotCounted, Barren
    <3>2. Row(<<"type", "arguments">>, {"type", "arguments"})
      BY Row2
    <3> QED BY <2>1, <3>1, <3>2 DEF VisitExact
  <2>5. CopyExact("new_invocation")
    BY <2>1, <2>2, <2>3
       DEF CopyExact, Copied, Compared, Ignored, Supplemental, Forgotten,
           Members, DeniesItself, new_invocation_members
  <2>6. LeastExact("new_invocation")
    BY <2>2 DEF LeastExact, Operands, Fields, new_invocation
  <2> QED BY <2>4, <2>5, <2>6 DEF Exact
<1>5. Exact("method_invocation")
  <2>1. /\ "method_invocation" \in DOMAIN Class
        /\ Visits["method_invocation"] = <<"value", "name", "arguments">>
    BY GroupsOfClasses DEF InvocationVisits
  <2>2. /\ Class["method_invocation"] = method_invocation
        /\ MembersOf["method_invocation"] = method_invocation_members
    BY DEF Class, MembersOf
  <2>3. /\ OperandNames("method_invocation") = {"value", "name", "arguments"}
        /\ Data("method_invocation") = {"operator_kind"}
    BY <2>2 DEF OperandNames, Data, Operands, Fields, method_invocation
  <2>4. VisitExact("method_invocation")
    <3>1. {m \in OperandNames("method_invocation") :
              <<"method_invocation", m>> \notin Promise!NotCounted \cup Barren}
             = {"value", "name", "arguments"}
      BY <2>3 DEF Promise!NotCounted, Barren
    <3>2. Row(<<"value", "name", "arguments">>, {"value", "name", "arguments"})
      BY Row3
    <3> QED BY <2>1, <3>1, <3>2 DEF VisitExact
  <2>5. CopyExact("method_invocation")
    BY <2>1, <2>2, <2>3
       DEF CopyExact, Copied, Compared, Ignored, Supplemental, Forgotten,
           Members, DeniesItself, method_invocation_members
  <2>6. LeastExact("method_invocation")
    BY <2>2 DEF LeastExact, Operands, Fields, method_invocation
  <2> QED BY <2>4, <2>5, <2>6 DEF Exact
<1>6. Exact("static_method_invocation")
  <2>1. /\ "static_method_invocation" \in DOMAIN Class
        /\ Visits["static_method_invocation"] = <<"type", "name", "arguments">>
    BY GroupsOfClasses DEF InvocationVisits
  <2>2. /\ Class["static_method_invocation"] = static_method_invocation
        /\ MembersOf["static_method_invocation"] = static_method_invocation_members
    BY DEF Class, MembersOf
  <2>3. /\ OperandNames("static_method_invocation") = {"type", "name", "arguments"}
        /\ Data("static_method_invocation") = {}
    BY <2>2 DEF OperandNames, Data, Operands, Fields, static_method_invocation
  <2>4. VisitExact("static_method_invocation")
    <3>1. {m \in OperandNames("static_method_invocation") :
              <<"static_method_invocation", m>> \notin Promise!NotCounted \cup Barren}
             = {"type", "name", "arguments"}
      BY <2>3 DEF Promise!NotCounted, Barren
    <3>2. Row(<<"type", "name", "arguments">>, {"type", "name", "arguments"})
      BY Row3
    <3> QED BY <2>1, <3>1, <3>2 DEF VisitExact
  <2>5. CopyExact("static_method_invocation")
    BY <2>1, <2>2, <2>3
       DEF CopyExact, Copied, Compared, Ignored, Supplemental, Forgotten,
           Members, DeniesItself, static_method_invocation_members
  <2>6. LeastExact("static_method_invocation")
    BY <2>2 DEF LeastExact, Operands, Fields, static_method_invocation
  <2> QED BY <2>4, <2>5, <2>6 DEF Exact
<1>7. Exact("current_of_cursor")
  <2>1. /\ "current_of_cursor" \in DOMAIN Class
        /\ Visits["current_of_cursor"] = <<"name">>
    BY GroupsOfClasses DEF InvocationVisits
  <2>2. /\ Class["current_of_cursor"] = current_of_cursor
        /\ MembersOf["current_of_cursor"] = current_of_cursor_members
    BY DEF Class, MembersOf
  <2>3. /\ OperandNames("current_of_cursor") = {"name"}
        /\ Data("current_of_cursor") = {}
    BY <2>2 DEF OperandNames, Data, Operands, Fields, current_of_cursor
  <2>4. VisitExact("current_of_cursor")
    <3>1. {m \in OperandNames("current_of_cursor") :
              <<"current_of_cursor", m>> \notin Promise!NotCounted \cup Barren}
             = {"name"}
      BY <2>3 DEF Promise!NotCounted, Barren
    <3>2. Row(<<"name">>, {"name"})
      BY Row1
    <3> QED BY <2>1, <3>1, <3>2 DEF VisitExact
  <2>5. CopyExact("current_of_cursor")
    BY <2>1, <2>2, <2>3
       DEF CopyExact, Copied, Compared, Ignored, Supplemental, Forgotten,
           Members, DeniesItself, current_of_cursor_members
  <2>6. LeastExact("current_of_cursor")
    BY <2>2 DEF LeastExact, Operands, Fields, current_of_cursor
  <2> QED BY <2>4, <2>5, <2>6 DEF Exact
<1>8. Exact("placeholder_reference")
  <2>1. /\ "placeholder_reference" \in DOMAIN Class
        /\ Visits["placeholder_reference"] = <<>>
    BY GroupsOfClasses DEF InvocationVisits
  <2>2. /\ Class["placeholder_reference"] = placeholder_reference
        /\ MembersOf["placeholder_reference"] = placeholder_reference_members
    BY DEF Class, MembersOf
  <2>3. /\ OperandNames("placeholder_reference") = {}
        /\ Data("placeholder_reference") = {"index"}
    BY <2>2 DEF OperandNames, Data, Operands, Fields, placeholder_reference
  <2>4. VisitExact("placeholder_reference")
    <3>1. {m \in OperandNames("placeholder_reference") :
              <<"placeholder_reference", m>> \notin Promise!NotCounted \cup Barren}
             = {}
      BY <2>3 DEF Promise!NotCounted, Barren
    <3>2. Row(<<>>, {})
      BY Row0
    <3> QED BY <2>1, <3>1, <3>2 DEF VisitExact
  <2>5. CopyExact("placeholder_reference")
    BY <2>1, <2>2, <2>3
       DEF CopyExact, Copied, Compared, Ignored, Supplemental, Forgotten,
           Members, placeholder_reference_members
  <2>6. LeastExact("placeholder_reference")
    BY <2>2 DEF LeastExact, Operands, Fields, placeholder_reference
  <2> QED BY <2>4, <2>5, <2>6 DEF Exact
<1> QED BY <1>1, <1>2, <1>3, <1>4, <1>5, <1>6, <1>7, <1>8 DEF InvocationVisits

(* The names, literals and types, class by class.                          *)
LEMMA LeafClasses ==
    ASSUME NEW c \in DOMAIN LeafVisits
    PROVE  Exact(c)
<1> USE DEF One, Optional, Many, Some, Datum
<1>1. Exact("boolean")
  <2>1. /\ "boolean" \in DOMAIN Class
        /\ Visits["boolean"] = <<>>
    BY GroupsOfClasses DEF LeafVisits
  <2>2. /\ Class["boolean"] = boolean
        /\ MembersOf["boolean"] = boolean_members
    BY DEF Class, MembersOf
  <2>3. /\ OperandNames("boolean") = {}
        /\ Data("boolean") = {"value"}
    BY <2>2 DEF OperandNames, Data, Operands, Fields, boolean
  <2>4. VisitExact("boolean")
    <3>1. {m \in OperandNames("boolean") :
              <<"boolean", m>> \notin Promise!NotCounted \cup Barren}
             = {}
      BY <2>3 DEF Promise!NotCounted, Barren
    <3>2. Row(<<>>, {})
      BY Row0
    <3> QED BY <2>1, <3>1, <3>2 DEF VisitExact
  <2>5. CopyExact("boolean")
    BY <2>1, <2>2, <2>3
       DEF CopyExact, Copied, Compared, Ignored, Supplemental, Forgotten,
           Members, boolean_members
  <2>6. LeastExact("boolean")
    BY <2>2 DEF LeastExact, Operands, Fields, boolean
  <2> QED BY <2>4, <2>5, <2>6 DEF Exact
<1>2. Exact("numeric")
  <2>1. /\ "numeric" \in DOMAIN Class
        /\ Visits["numeric"] = <<>>
    BY GroupsOfClasses DEF LeafVisits
  <2>2. /\ Class["numeric"] = numeric
        /\ MembersOf["numeric"] = numeric_members
    BY DEF Class, MembersOf
  <2>3. /\ OperandNames("numeric") = {}
        /\ Data("numeric") = {"value_kind", "sign", "unsigned_value"}
    BY <2>2 DEF OperandNames, Data, Operands, Fields, numeric
  <2>4. VisitExact("numeric")
    <3>1. {m \in OperandNames("numeric") :
              <<"numeric", m>> \notin Promise!NotCounted \cup Barren}
             = {}
      BY <2>3 DEF Promise!NotCounted, Barren
    <3>2. Row(<<>>, {})
      BY Row0
    <3> QED BY <2>1, <3>1, <3>2 DEF VisitExact
  <2>5. CopyExact("numeric")
    BY <2>1, <2>2, <2>3
       DEF CopyExact, Copied, Compared, Ignored, Supplemental, Forgotten,
           Members, numeric_members
  <2>6. LeastExact("numeric")
    BY <2>2 DEF LeastExact, Operands, Fields, numeric
  <2> QED BY <2>4, <2>5, <2>6 DEF Exact
<1>3. Exact("string")
  <2>1. /\ "string" \in DOMAIN Class
        /\ Visits["string"] = <<>>
    BY GroupsOfClasses DEF LeafVisits
  <2>2. /\ Class["string"] = string
        /\ MembersOf["string"] = string_members
    BY DEF Class, MembersOf
  <2>3. /\ OperandNames("string") = {}
        /\ Data("string") = {"value_kind", "value", "concatenations"}
    BY <2>2 DEF OperandNames, Data, Operands, Fields, string
  <2>4. VisitExact("string")
    <3>1. {m \in OperandNames("string") :
              <<"string", m>> \notin Promise!NotCounted \cup Barren}
             = {}
      BY <2>3 DEF Promise!NotCounted, Barren
    <3>2. Row(<<>>, {})
      BY Row0
    <3> QED BY <2>1, <3>1, <3>2 DEF VisitExact
  <2>5. CopyExact("string")
    BY <2>1, <2>2, <2>3
       DEF CopyExact, Copied, Compared, Ignored, Supplemental, Forgotten,
           Members, string_members
  <2>6. LeastExact("string")
    BY <2>2 DEF LeastExact, Operands, Fields, string
  <2> QED BY <2>4, <2>5, <2>6 DEF Exact
<1>4. Exact("literal_datetime")
  <2>1. /\ "literal_datetime" \in DOMAIN Class
        /\ Visits["literal_datetime"] = <<>>
    BY GroupsOfClasses DEF LeafVisits
  <2>2. /\ Class["literal_datetime"] = literal_datetime
        /\ MembersOf["literal_datetime"] = literal_datetime_members
    BY DEF Class, MembersOf
  <2>3. /\ OperandNames("literal_datetime") = {}
        /\ Data("literal_datetime") = {"value_kind", "value"}
    BY <2>2 DEF OperandNames, Data, Operands, Fields, literal_datetime
  <2>4. VisitExact("literal_datetime")
    <3>1. {m \in OperandNames("literal_datetime") :
              <<"literal_datetime", m>> \notin Promise!NotCounted \cup Barren}
             = {}
      BY <2>3 DEF Promise!NotCounted, Barren
    <3>2. Row(<<>>, {})
      BY Row0
    <3> QED BY <2>1, <3>1, <3>2 DEF VisitExact
  <2>5. CopyExact("literal_datetime")
    BY <2>1, <2>2, <2>3
       DEF CopyExact, Copied, Compared, Ignored, Supplemental, Forgotten,
           Members, literal_datetime_members
  <2>6. LeastExact("literal_datetime")
    BY <2>2 DEF LeastExact, Operands, Fields, literal_datetime
  <2> QED BY <2>4, <2>5, <2>6 DEF Exact
<1>5. Exact("literal_interval")
  <2>1. /\ "literal_interval" \in DOMAIN Class
        /\ Visits["literal_interval"] = <<>>
    BY GroupsOfClasses DEF LeafVisits
  <2>2. /\ Class["literal_interval"] = literal_interval
        /\ MembersOf["literal_interval"] = literal_interval_members
    BY DEF Class, MembersOf
  <2>3. /\ OperandNames("literal_interval") = {}
        /\ Data("literal_interval") = {"sign", "value"}
    BY <2>2 DEF OperandNames, Data, Operands, Fields, literal_interval
  <2>4. VisitExact("literal_interval")
    <3>1. {m \in OperandNames("literal_interval") :
              <<"literal_interval", m>> \notin Promise!NotCounted \cup Barren}
             = {}
      BY <2>3 DEF Promise!NotCounted, Barren
    <3>2. Row(<<>>, {})
      BY Row0
    <3> QED BY <2>1, <3>1, <3>2 DEF VisitExact
  <2>5. CopyExact("literal_interval")
    BY <2>1, <2>2, <2>3
       DEF CopyExact, Copied, Compared, Ignored, Supplemental, Forgotten,
           Members, literal_interval_members
  <2>6. LeastExact("literal_interval")
    BY <2>2 DEF LeastExact, Operands, Fields, literal_interval
  <2> QED BY <2>4, <2>5, <2>6 DEF Exact
<1>6. Exact("special")
  <2>1. /\ "special" \in DOMAIN Class
        /\ Visits["special"] = <<>>
    BY GroupsOfClasses DEF LeafVisits
  <2>2. /\ Class["special"] = special
        /\ MembersOf["special"] = special_members
    BY DEF Class, MembersOf
  <2>3. /\ OperandNames("special") = {}
        /\ Data("special") = {"node_kind"}
    BY <2>2 DEF OperandNames, Data, Operands, Fields, special
  <2>4. VisitExact("special")
    <3>1. {m \in OperandNames("special") :
              <<"special", m>> \notin Promise!NotCounted \cup Barren}
             = {}
      BY <2>3 DEF Promise!NotCounted, Barren
    <3>2. Row(<<>>, {})
      BY Row0
    <3> QED BY <2>1, <3>1, <3>2 DEF VisitExact
  <2>5. CopyExact("special")
    BY <2>1, <2>2, <2>3
       DEF CopyExact, Copied, Compared, Ignored, Supplemental, Forgotten,
           Members, special_members
  <2>6. LeastExact("special")
    BY <2>2 DEF LeastExact, Operands, Fields, special
  <2> QED BY <2>4, <2>5, <2>6 DEF Exact
<1>7. Exact("type_simple")
  <2>1. /\ "type_simple" \in DOMAIN Class
        /\ Visits["type_simple"] = <<>>
    BY GroupsOfClasses DEF LeafVisits
  <2>2. /\ Class["type_simple"] = type_simple
        /\ MembersOf["type_simple"] = type_simple_members
    BY DEF Class, MembersOf
  <2>3. /\ OperandNames("type_simple") = {}
        /\ Data("type_simple") = {"type_kind"}
    BY <2>2 DEF OperandNames, Data, Operands, Fields, type_simple
  <2>4. VisitExact("type_simple")
    <3>1. {m \in OperandNames("type_simple") :
              <<"type_simple", m>> \notin Promise!NotCounted \cup Barren}
             = {}
      BY <2>3 DEF Promise!NotCounted, Barren
    <3>2. Row(<<>>, {})
      BY Row0
    <3> QED BY <2>1, <3>1, <3>2 DEF VisitExact
  <2>5. CopyExact("type_simple")
    BY <2>1, <2>2, <2>3
       DEF CopyExact, Copied, Compared, Ignored, Supplemental, Forgotten,
           Members, type_simple_members
  <2>6. LeastExact("type_simple")
    BY <2>2 DEF LeastExact, Operands, Fields, type_simple
  <2> QED BY <2>4, <2>5, <2>6 DEF Exact
<1>8. Exact("character_string")
  <2>1. /\ "character_string" \in DOMAIN Class
        /\ Visits["character_string"] = <<>>
    BY GroupsOfClasses DEF LeafVisits
  <2>2. /\ Class["character_string"] = character_string
        /\ MembersOf["character_string"] = character_string_members
    BY DEF Class, MembersOf
  <2>3. /\ OperandNames("character_string") = {}
        /\ Data("character_string") = {"type_kind", "length"}
    BY <2>2 DEF OperandNames, Data, Operands, Fields, character_string
  <2>4. VisitExact("character_string")
    <3>1. {m \in OperandNames("character_string") :
              <<"character_string", m>> \notin Promise!NotCounted \cup Barren}
             = {}
      BY <2>3 DEF Promise!NotCounted, Barren
    <3>2. Row(<<>>, {})
      BY Row0
    <3> QED BY <2>1, <3>1, <3>2 DEF VisitExact
  <2>5. CopyExact("character_string")
    BY <2>1, <2>2, <2>3
       DEF CopyExact, Copied, Compared, Ignored, Supplemental, Forgotten,
           Members, character_string_members
  <2>6. LeastExact("character_string")
    BY <2>2 DEF LeastExact, Operands, Fields, character_string
  <2> QED BY <2>4, <2>5, <2>6 DEF Exact
<1>9. Exact("bit_string")
  <2>1. /\ "bit_string" \in DOMAIN Class
        /\ Visits["bit_string"] = <<>>
    BY GroupsOfClasses DEF LeafVisits
  <2>2. /\ Class["bit_string"] = bit_string
        /\ MembersOf["bit_string"] = bit_string_members
    BY DEF Class, MembersOf
  <2>3. /\ OperandNames("bit_string") = {}
        /\ Data("bit_string") = {"type_kind", "length"}
    BY <2>2 DEF OperandNames, Data, Operands, Fields, bit_string
  <2>4. VisitExact("bit_string")
    <3>1. {m \in OperandNames("bit_string") :
              <<"bit_string", m>> \notin Promise!NotCounted \cup Barren}
             = {}
      BY <2>3 DEF Promise!NotCounted, Barren
    <3>2. Row(<<>>, {})
      BY Row0
    <3> QED BY <2>1, <3>1, <3>2 DEF VisitExact
  <2>5. CopyExact("bit_string")
    BY <2>1, <2>2, <2>3
       DEF CopyExact, Copied, Compared, Ignored, Supplemental, Forgotten,
           Members, bit_string_members
  <2>6. LeastExact("bit_string")
    BY <2>2 DEF LeastExact, Operands, Fields, bit_string
  <2> QED BY <2>4, <2>5, <2>6 DEF Exact
<1>10. Exact("octet_string")
  <2>1. /\ "octet_string" \in DOMAIN Class
        /\ Visits["octet_string"] = <<>>
    BY GroupsOfClasses DEF LeafVisits
  <2>2. /\ Class["octet_string"] = octet_string
        /\ MembersOf["octet_string"] = octet_string_members
    BY DEF Class, MembersOf
  <2>3. /\ OperandNames("octet_string") = {}
        /\ Data("octet_string") = {"type_kind", "length"}
    BY <2>2 DEF OperandNames, Data, Operands, Fields, octet_string
  <2>4. VisitExact("octet_string")
    <3>1. {m \in OperandNames("octet_string") :
              <<"octet_string", m>> \notin Promise!NotCounted \cup Barren}
             = {}
      BY <2>3 DEF Promise!NotCounted, Barren
    <3>2. Row(<<>>, {})
      BY Row0
    <3> QED BY <2>1, <3>1, <3>2 DEF VisitExact
  <2>5. CopyExact("octet_string")
    BY <2>1, <2>2, <2>3
       DEF CopyExact, Copied, Compared, Ignored, Supplemental, Forgotten,
           Members, octet_string_members
  <2>6. LeastExact("octet_string")
    BY <2>2 DEF LeastExact, Operands, Fields, octet_string
  <2> QED BY <2>4, <2>5, <2>6 DEF Exact
<1>11. Exact("decimal")
  <2>1. /\ "decimal" \in DOMAIN Class
        /\ Visits["decimal"] = <<>>
    BY GroupsOfClasses DEF LeafVisits
  <2>2. /\ Class["decimal"] = decimal
        /\ MembersOf["decimal"] = decimal_members
    BY DEF Class, MembersOf
  <2>3. /\ OperandNames("decimal") = {}
        /\ Data("decimal") = {"type_kind", "precision", "scale"}
    BY <2>2 DEF OperandNames, Data, Operands, Fields, decimal
  <2>4. VisitExact("decimal")
    <3>1. {m \in OperandNames("decimal") :
              <<"decimal", m>> \notin Promise!NotCounted \cup Barren}
             = {}
      BY <2>3 DEF Promise!NotCounted, Barren
    <3>2. Row(<<>>, {})
      BY Row0
    <3> QED BY <2>1, <3>1, <3>2 DEF VisitExact
  <2>5. CopyExact("decimal")
    BY <2>1, <2>2, <2>3
       DEF CopyExact, Copied, Compared, Ignored, Supplemental, Forgotten,
           Members, decimal_members
  <2>6. LeastExact("decimal")
    BY <2>2 DEF LeastExact, Operands, Fields, decimal
  <2> QED BY <2>4, <2>5, <2>6 DEF Exact
<1>12. Exact("binary_numeric")
  <2>1. /\ "binary_numeric" \in DOMAIN Class
        /\ Visits["binary_numeric"] = <<>>
    BY GroupsOfClasses DEF LeafVisits
  <2>2. /\ Class["binary_numeric"] = binary_numeric
        /\ MembersOf["binary_numeric"] = binary_numeric_members
    BY DEF Class, MembersOf
  <2>3. /\ OperandNames("binary_numeric") = {}
        /\ Data("binary_numeric") = {"type_kind", "precision"}
    BY <2>2 DEF OperandNames, Data, Operands, Fields, binary_numeric
  <2>4. VisitExact("binary_numeric")
    <3>1. {m \in OperandNames("binary_numeric") :
              <<"binary_numeric", m>> \notin Promise!NotCounted \cup Barren}
             = {}
      BY <2>3 DEF Promise!NotCounted, Barren
    <3>2. Row(<<>>, {})
      BY Row0
    <3> QED BY <2>1, <3>1, <3>2 DEF VisitExact
  <2>5. CopyExact("binary_numeric")
    BY <2>1, <2>2, <2>3
       DEF CopyExact, Copied, Compared, Ignored, Supplemental, Forgotten,
           Members, binary_numeric_members
  <2>6. LeastExact("binary_numeric")
    BY <2>2 DEF LeastExact, Operands, Fields, binary_numeric
  <2> QED BY <2>4, <2>5, <2>6 DEF Exact
<1>13. Exact("type_datetime")
  <2>1. /\ "type_datetime" \in DOMAIN Class
        /\ Visits["type_datetime"] = <<>>
    BY GroupsOfClasses DEF LeafVisits
  <2>2. /\ Class["type_datetime"] = type_datetime
        /\ MembersOf["type_datetime"] = type_datetime_members
    BY DEF Class, MembersOf
  <2>3. /\ OperandNames("type_datetime") = {}
        /\ Data("type_datetime") = {"type_kind", "has_time_zone"}
    BY <2>2 DEF OperandNames, Data, Operands, Fields, type_datetime
  <2>4. VisitExact("type_datetime")
    <3>1. {m \in OperandNames("type_datetime") :
              <<"type_datetime", m>> \notin Promise!NotCounted \cup Barren}
             = {}
      BY <2>3 DEF Promise!NotCounted, Barren
    <3>2. Row(<<>>, {})
      BY Row0
    <3> QED BY <2>1, <3>1, <3>2 DEF VisitExact
  <2>5. CopyExact("type_datetime")
    BY <2>1, <2>2, <2>3
       DEF CopyExact, Copied, Compared, Ignored, Supplemental, Forgotten,
           Members, type_datetime_members
  <2>6. LeastExact("type_datetime")
    BY <2>2 DEF LeastExact, Operands, Fields, type_datetime
  <2> QED BY <2>4, <2>5, <2>6 DEF Exact
<1>14. Exact("type_interval")
  <2>1. /\ "type_interval" \in DOMAIN Class
        /\ Visits["type_interval"] = <<>>
    BY GroupsOfClasses DEF LeafVisits
  <2>2. /\ Class["type_interval"] = type_interval
        /\ MembersOf["type_interval"] = type_interval_members
    BY DEF Class, MembersOf
  <2>3. /\ OperandNames("type_interval") = {}
        /\ Data("type_interval") = {}
    BY <2>2 DEF OperandNames, Data, Operands, Fields, type_interval
  <2>4. VisitExact("type_interval")
    <3>1. {m \in OperandNames("type_interval") :
              <<"type_interval", m>> \notin Promise!NotCounted \cup Barren}
             = {}
      BY <2>3 DEF Promise!NotCounted, Barren
    <3>2. Row(<<>>, {})
      BY Row0
    <3> QED BY <2>1, <3>1, <3>2 DEF VisitExact
  <2>5. CopyExact("type_interval")
    BY <2>1, <2>2, <2>3
       DEF CopyExact, Copied, Compared, Ignored, Supplemental, Forgotten,
           Members, type_interval_members
  <2>6. LeastExact("type_interval")
    BY <2>2 DEF LeastExact, Operands, Fields, type_interval
  <2> QED BY <2>4, <2>5, <2>6 DEF Exact
<1>15. Exact("row")
  <2>1. /\ "row" \in DOMAIN Class
        /\ Visits["row"] = <<"elements">>
    BY GroupsOfClasses DEF LeafVisits
  <2>2. /\ Class["row"] = row
        /\ MembersOf["row"] = row_members
    BY DEF Class, MembersOf
  <2>3. /\ OperandNames("row") = {"elements"}
        /\ Data("row") = {}
    BY <2>2 DEF OperandNames, Data, Operands, Fields, row
  <2>4. VisitExact("row")
    <3>1. {m \in OperandNames("row") :
              <<"row", m>> \notin Promise!NotCounted \cup Barren}
             = {"elements"}
      BY <2>3 DEF Promise!NotCounted, Barren
    <3>2. Row(<<"elements">>, {"elements"})
      BY Row1
    <3> QED BY <2>1, <3>1, <3>2 DEF VisitExact
  <2>5. CopyExact("row")
    BY <2>1, <2>2, <2>3
       DEF CopyExact, Copied, Compared, Ignored, Supplemental, Forgotten,
           Members, DeniesItself, row_members
  <2>6. LeastExact("row")
    BY <2>2 DEF LeastExact, Operands, Fields, row
  <2> QED BY <2>4, <2>5, <2>6 DEF Exact
<1>16. Exact("user_defined")
  <2>1. /\ "user_defined" \in DOMAIN Class
        /\ Visits["user_defined"] = <<"name">>
    BY GroupsOfClasses DEF LeafVisits
  <2>2. /\ Class["user_defined"] = user_defined
        /\ MembersOf["user_defined"] = user_defined_members
    BY DEF Class, MembersOf
  <2>3. /\ OperandNames("user_defined") = {"name"}
        /\ Data("user_defined") = {}
    BY <2>2 DEF OperandNames, Data, Operands, Fields, user_defined
  <2>4. VisitExact("user_defined")
    <3>1. {m \in OperandNames("user_defined") :
              <<"user_defined", m>> \notin Promise!NotCounted \cup Barren}
             = {"name"}
      BY <2>3 DEF Promise!NotCounted, Barren
    <3>2. Row(<<"name">>, {"name"})
      BY Row1
    <3> QED BY <2>1, <3>1, <3>2 DEF VisitExact
  <2>5. CopyExact("user_defined")
    BY <2>1, <2>2, <2>3
       DEF CopyExact, Copied, Compared, Ignored, Supplemental, Forgotten,
           Members, DeniesItself, user_defined_members
  <2>6. LeastExact("user_defined")
    BY <2>2 DEF LeastExact, Operands, Fields, user_defined
  <2> QED BY <2>4, <2>5, <2>6 DEF Exact
<1>17. Exact("collection")
  <2>1. /\ "collection" \in DOMAIN Class
        /\ Visits["collection"] = <<"element">>
    BY GroupsOfClasses DEF LeafVisits
  <2>2. /\ Class["collection"] = collection
        /\ MembersOf["collection"] = collection_members
    BY DEF Class, MembersOf
  <2>3. /\ OperandNames("collection") = {"element"}
        /\ Data("collection") = {"length"}
    BY <2>2 DEF OperandNames, Data, Operands, Fields, collection
  <2>4. VisitExact("collection")
    <3>1. {m \in OperandNames("collection") :
              <<"collection", m>> \notin Promise!NotCounted \cup Barren}
             = {"element"}
      BY <2>3 DEF Promise!NotCounted, Barren
    <3>2. Row(<<"element">>, {"element"})
      BY Row1
    <3> QED BY <2>1, <3>1, <3>2 DEF VisitExact
  <2>5. CopyExact("collection")
    BY <2>1, <2>2, <2>3
       DEF CopyExact, Copied, Compared, Ignored, Supplemental, Forgotten,
           Members, collection_members
  <2>6. LeastExact("collection")
    BY <2>2 DEF LeastExact, Operands, Fields, collection
  <2> QED BY <2>4, <2>5, <2>6 DEF Exact
<1>18. Exact("name_simple")
  <2>1. /\ "name_simple" \in DOMAIN Class
        /\ Visits["name_simple"] = <<>>
    BY GroupsOfClasses DEF LeafVisits
  <2>2. /\ Class["name_simple"] = name_simple
        /\ MembersOf["name_simple"] = name_simple_members
    BY DEF Class, MembersOf
  <2>3. /\ OperandNames("name_simple") = {}
        /\ Data("name_simple") = {"identifier", "identifier_kind"}
    BY <2>2 DEF OperandNames, Data, Operands, Fields, name_simple
  <2>4. VisitExact("name_simple")
    <3>1. {m \in OperandNames("name_simple") :
              <<"name_simple", m>> \notin Promise!NotCounted \cup Barren}
             = {}
      BY <2>3 DEF Promise!NotCounted, Barren
    <3>2. Row(<<>>, {})
      BY Row0
    <3> QED BY <2>1, <3>1, <3>2 DEF VisitExact
  <2>5. CopyExact("name_simple")
    BY <2>1, <2>2, <2>3
       DEF CopyExact, Copied, Compared, Ignored, Supplemental, Forgotten,
           Members, name_simple_members
  <2>6. LeastExact("name_simple")
    BY <2>2 DEF LeastExact, Operands, Fields, name_simple
  <2> QED BY <2>4, <2>5, <2>6 DEF Exact
<1>19. Exact("name_qualified")
  <2>1. /\ "name_qualified" \in DOMAIN Class
        /\ Visits["name_qualified"] = <<"qualifier", "last">>
    BY GroupsOfClasses DEF LeafVisits
  <2>2. /\ Class["name_qualified"] = name_qualified
        /\ MembersOf["name_qualified"] = name_qualified_members
    BY DEF Class, MembersOf
  <2>3. /\ OperandNames("name_qualified") = {"qualifier", "last"}
        /\ Data("name_qualified") = {}
    BY <2>2 DEF OperandNames, Data, Operands, Fields, name_qualified
  <2>4. VisitExact("name_qualified")
    <3>1. {m \in OperandNames("name_qualified") :
              <<"name_qualified", m>> \notin Promise!NotCounted \cup Barren}
             = {"qualifier", "last"}
      BY <2>3 DEF Promise!NotCounted, Barren
    <3>2. Row(<<"qualifier", "last">>, {"qualifier", "last"})
      BY Row2
    <3> QED BY <2>1, <3>1, <3>2 DEF VisitExact
  <2>5. CopyExact("name_qualified")
    BY <2>1, <2>2, <2>3
       DEF CopyExact, Copied, Compared, Ignored, Supplemental, Forgotten,
           Members, name_qualified_members
  <2>6. LeastExact("name_qualified")
    BY <2>2 DEF LeastExact, Operands, Fields, name_qualified
  <2> QED BY <2>4, <2>5, <2>6 DEF Exact
<1> QED BY <1>1, <1>2, <1>3, <1>4, <1>5, <1>6, <1>7, <1>8, <1>9, <1>10, <1>11,
           <1>12, <1>13, <1>14, <1>15, <1>16, <1>17, <1>18, <1>19 DEF LeafVisits

(* The clauses and definitions, class by class.                            *)
LEMMA ClauseClasses ==
    ASSUME NEW c \in DOMAIN ClauseVisits
    PROVE  Exact(c)
<1> USE DEF One, Optional, Many, Some, Datum
<1>1. Exact("target_element")
  <2>1. /\ "target_element" \in DOMAIN Class
        /\ Visits["target_element"] = <<"target", "indicator">>
    BY GroupsOfClasses DEF ClauseVisits
  <2>2. /\ Class["target_element"] = target_element
        /\ MembersOf["target_element"] = target_element_members
    BY DEF Class, MembersOf
  <2>3. /\ OperandNames("target_element") = {"target", "indicator"}
        /\ Data("target_element") = {}
    BY <2>2 DEF OperandNames, Data, Operands, Fields, target_element
  <2>4. VisitExact("target_element")
    <3>1. {m \in OperandNames("target_element") :
              <<"target_element", m>> \notin Promise!NotCounted \cup Barren}
             = {"target", "indicator"}
      BY <2>3 DEF Promise!NotCounted, Barren
    <3>2. Row(<<"target", "indicator">>, {"target", "indicator"})
      BY Row2
    <3> QED BY <2>1, <3>1, <3>2 DEF VisitExact
  <2>5. CopyExact("target_element")
    BY <2>1, <2>2, <2>3
       DEF CopyExact, Copied, Compared, Ignored, Supplemental, Forgotten,
           Members, DeniesItself, target_element_members
  <2>6. LeastExact("target_element")
    BY <2>2 DEF LeastExact, Operands, Fields, target_element
  <2> QED BY <2>4, <2>5, <2>6 DEF Exact
<1>2. Exact("set_element")
  <2>1. /\ "set_element" \in DOMAIN Class
        /\ Visits["set_element"] = <<"target", "value">>
    BY GroupsOfClasses DEF ClauseVisits
  <2>2. /\ Class["set_element"] = set_element
        /\ MembersOf["set_element"] = set_element_members
    BY DEF Class, MembersOf
  <2>3. /\ OperandNames("set_element") = {"target", "value"}
        /\ Data("set_element") = {}
    BY <2>2 DEF OperandNames, Data, Operands, Fields, set_element
  <2>4. VisitExact("set_element")
    <3>1. {m \in OperandNames("set_element") :
              <<"set_element", m>> \notin Promise!NotCounted \cup Barren}
             = {"target", "value"}
      BY <2>3 DEF Promise!NotCounted, Barren
    <3>2. Row(<<"target", "value">>, {"target", "value"})
      BY Row2
    <3> QED BY <2>1, <3>1, <3>2 DEF VisitExact
  <2>5. CopyExact("set_element")
    BY <2>1, <2>2, <2>3
       DEF CopyExact, Copied, Compared, Ignored, Supplemental, Forgotten,
           Members, DeniesItself, set_element_members
  <2>6. LeastExact("set_element")
    BY <2>2 DEF LeastExact, Operands, Fields, set_element
  <2> QED BY <2>4, <2>5, <2>6 DEF Exact
<1>3. Exact("storage_parameter")
  <2>1. /\ "storage_parameter" \in DOMAIN Class
        /\ Visits["storage_parameter"] = <<"name", "value">>
    BY GroupsOfClasses DEF ClauseVisits
  <2>2. /\ Class["storage_parameter"] = storage_parameter
        /\ MembersOf["storage_parameter"] = storage_parameter_members
    BY DEF Class, MembersOf
  <2>3. /\ OperandNames("storage_parameter") = {"name", "value"}
        /\ Data("storage_parameter") = {}
    BY <2>2 DEF OperandNames, Data, Operands, Fields, storage_parameter
  <2>4. VisitExact("storage_parameter")
    <3>1. {m \in OperandNames("storage_parameter") :
              <<"storage_parameter", m>> \notin Promise!NotCounted \cup Barren}
             = {"name", "value"}
      BY <2>3 DEF Promise!NotCounted, Barren
    <3>2. Row(<<"name", "value">>, {"name", "value"})
      BY Row2
    <3> QED BY <2>1, <3>1, <3>2 DEF VisitExact
  <2>5. CopyExact("storage_parameter")
    BY <2>1, <2>2, <2>3
       DEF CopyExact, Copied, Compared, Ignored, Supplemental, Forgotten,
           Members, DeniesItself, storage_parameter_members
  <2>6. LeastExact("storage_parameter")
    BY <2>2 DEF LeastExact, Operands, Fields, storage_parameter
  <2> QED BY <2>4, <2>5, <2>6 DEF Exact
<1>4. Exact("sort_element")
  <2>1. /\ "sort_element" \in DOMAIN Class
        /\ Visits["sort_element"] = <<"key", "collation">>
    BY GroupsOfClasses DEF ClauseVisits
  <2>2. /\ Class["sort_element"] = sort_element
        /\ MembersOf["sort_element"] = sort_element_members
    BY DEF Class, MembersOf
  <2>3. /\ OperandNames("sort_element") = {"key", "collation"}
        /\ Data("sort_element") = {"direction", "null_location"}
    BY <2>2 DEF OperandNames, Data, Operands, Fields, sort_element
  <2>4. VisitExact("sort_element")
    <3>1. {m \in OperandNames("sort_element") :
              <<"sort_element", m>> \notin Promise!NotCounted \cup Barren}
             = {"key", "collation"}
      BY <2>3 DEF Promise!NotCounted, Barren
    <3>2. Row(<<"key", "collation">>, {"key", "collation"})
      BY Row2
    <3> QED BY <2>1, <3>1, <3>2 DEF VisitExact
  <2>5. CopyExact("sort_element")
    BY <2>1, <2>2, <2>3
       DEF CopyExact, Copied, Compared, Ignored, Supplemental, Forgotten,
           Members, DeniesItself, sort_element_members
  <2>6. LeastExact("sort_element")
    BY <2>2 DEF LeastExact, Operands, Fields, sort_element
  <2> QED BY <2>4, <2>5, <2>6 DEF Exact
<1>5. Exact("privilege_action")
  <2>1. /\ "privilege_action" \in DOMAIN Class
        /\ Visits["privilege_action"] = <<>>
    BY GroupsOfClasses DEF ClauseVisits
  <2>2. /\ Class["privilege_action"] = privilege_action
        /\ MembersOf["privilege_action"] = privilege_action_members
    BY DEF Class, MembersOf
  <2>3. /\ OperandNames("privilege_action") = {}
        /\ Data("privilege_action") = {"action_kind"}
    BY <2>2 DEF OperandNames, Data, Operands, Fields, privilege_action
  <2>4. VisitExact("privilege_action")
    <3>1. {m \in OperandNames("privilege_action") :
              <<"privilege_action", m>> \notin Promise!NotCounted \cup Barren}
             = {}
      BY <2>3 DEF Promise!NotCounted, Barren
    <3>2. Row(<<>>, {})
      BY Row0
    <3> QED BY <2>1, <3>1, <3>2 DEF VisitExact
  <2>5. CopyExact("privilege_action")
    BY <2>1, <2>2, <2>3
       DEF CopyExact, Copied, Compared, Ignored, Supplemental, Forgotten,
           Members, DeniesItself, privilege_action_members
  <2>6. LeastExact("privilege_action")
    BY <2>2 DEF LeastExact, Operands, Fields, privilege_action
  <2> QED BY <2>4, <2>5, <2>6 DEF Exact
<1>6. Exact("privilege_object")
  <2>1. /\ "privilege_object" \in DOMAIN Class
        /\ Visits["privilege_object"] = <<"object_name">>
    BY GroupsOfClasses DEF ClauseVisits
  <2>2. /\ Class["privilege_object"] = privilege_object
        /\ MembersOf["privilege_object"] = privilege_object_members
    BY DEF Class, MembersOf
  <2>3. /\ OperandNames("privilege_object") = {"object_name"}
        /\ Data("privilege_object") = {"object_kind"}
    BY <2>2 DEF OperandNames, Data, Operands, Fields, privilege_object
  <2>4. VisitExact("privilege_object")
    <3>1. {m \in OperandNames("privilege_object") :
              <<"privilege_object", m>> \notin Promise!NotCounted \cup Barren}
             = {"object_name"}
      BY <2>3 DEF Promise!NotCounted, Barren
    <3>2. Row(<<"object_name">>, {"object_name"})
      BY Row1
    <3> QED BY <2>1, <3>1, <3>2 DEF VisitExact
  <2>5. CopyExact("privilege_object")
    BY <2>1, <2>2, <2>3
       DEF CopyExact, Copied, Compared, Ignored, Supplemental, Forgotten,
           Members, DeniesItself, privilege_object_members
  <2>6. LeastExact("privilege_object")
    BY <2>2 DEF LeastExact, Operands, Fields, privilege_object
  <2> QED BY <2>4, <2>5, <2>6 DEF Exact
<1>7. Exact("privilege_user")
  <2>1. /\ "privilege_user" \in DOMAIN Class
        /\ Visits["privilege_user"] = <<"authorization_identifier">>
    BY GroupsOfClasses DEF ClauseVisits
  <2>2. /\ Class["privilege_user"] = privilege_user
        /\ MembersOf["privilege_user"] = privilege_user_members
    BY DEF Class, MembersOf
  <2>3. /\ OperandNames("privilege_user") = {"authorization_identifier"}
        /\ Data("privilege_user") = {"user_kind"}
    BY <2>2 DEF OperandNames, Data, Operands, Fields, privilege_user
  <2>4. VisitExact("privilege_user")
    <3>1. {m \in OperandNames("privilege_user") :
              <<"privilege_user", m>> \notin Promise!NotCounted \cup Barren}
             = {"authorization_identifier"}
      BY <2>3 DEF Promise!NotCounted, Barren
    <3>2. Row(<<"authorization_identifier">>, {"authorization_identifier"})
      BY Row1
    <3> QED BY <2>1, <3>1, <3>2 DEF VisitExact
  <2>5. CopyExact("privilege_user")
    BY <2>1, <2>2, <2>3
       DEF CopyExact, Copied, Compared, Ignored, Supplemental, Forgotten,
           Members, DeniesItself, privilege_user_members
  <2>6. LeastExact("privilege_user")
    BY <2>2 DEF LeastExact, Operands, Fields, privilege_user
  <2> QED BY <2>4, <2>5, <2>6 DEF Exact
<1>8. Exact("column_constraint_definition")
  <2>1. /\ "column_constraint_definition" \in DOMAIN Class
        /\ Visits["column_constraint_definition"] = <<"name", "body">>
    BY GroupsOfClasses DEF ClauseVisits
  <2>2. /\ Class["column_constraint_definition"] = column_constraint_definition
        /\ MembersOf["column_constraint_definition"] = column_constraint_definition_members
    BY DEF Class, MembersOf
  <2>3. /\ OperandNames("column_constraint_definition") = {"name", "body"}
        /\ Data("column_constraint_definition") = {}
    BY <2>2 DEF OperandNames, Data, Operands, Fields, column_constraint_definition
  <2>4. VisitExact("column_constraint_definition")
    <3>1. {m \in OperandNames("column_constraint_definition") :
              <<"column_constraint_definition", m>> \notin Promise!NotCounted \cup Barren}
             = {"name", "body"}
      BY <2>3 DEF Promise!NotCounted, Barren
    <3>2. Row(<<"name", "body">>, {"name", "body"})
      BY Row2
    <3> QED BY <2>1, <3>1, <3>2 DEF VisitExact
  <2>5. CopyExact("column_constraint_definition")
    BY <2>1, <2>2, <2>3
       DEF CopyExact, Copied, Compared, Ignored, Supplemental, Forgotten,
           Members, DeniesItself, column_constraint_definition_members
  <2>6. LeastExact("column_constraint_definition")
    BY <2>2 DEF LeastExact, Operands, Fields, column_constraint_definition
  <2> QED BY <2>4, <2>5, <2>6 DEF Exact
<1>9. Exact("group_by_clause")
  <2>1. /\ "group_by_clause" \in DOMAIN Class
        /\ Visits["group_by_clause"] = <<"elements">>
    BY GroupsOfClasses DEF ClauseVisits
  <2>2. /\ Class["group_by_clause"] = group_by_clause
        /\ MembersOf["group_by_clause"] = group_by_clause_members
    BY DEF Class, MembersOf
  <2>3. /\ OperandNames("group_by_clause") = {"elements"}
        /\ Data("group_by_clause") = {}
    BY <2>2 DEF OperandNames, Data, Operands, Fields, group_by_clause
  <2>4. VisitExact("group_by_clause")
    <3>1. {m \in OperandNames("group_by_clause") :
              <<"group_by_clause", m>> \notin Promise!NotCounted \cup Barren}
             = {"elements"}
      BY <2>3 DEF Promise!NotCounted, Barren
    <3>2. Row(<<"elements">>, {"elements"})
      BY Row1
    <3> QED BY <2>1, <3>1, <3>2 DEF VisitExact
  <2>5. CopyExact("group_by_clause")
    BY <2>1, <2>2, <2>3
       DEF CopyExact, Copied, Compared, Ignored, Supplemental, Forgotten,
           Members, DeniesItself, group_by_clause_members
  <2>6. LeastExact("group_by_clause")
    BY <2>2 DEF LeastExact, Operands, Fields, group_by_clause
  <2> QED BY <2>4, <2>5, <2>6 DEF Exact
<1>10. Exact("corresponding_clause")
  <2>1. /\ "corresponding_clause" \in DOMAIN Class
        /\ Visits["corresponding_clause"] = <<"column_names">>
    BY GroupsOfClasses DEF ClauseVisits
  <2>2. /\ Class["corresponding_clause"] = corresponding_clause
        /\ MembersOf["corresponding_clause"] = corresponding_clause_members
    BY DEF Class, MembersOf
  <2>3. /\ OperandNames("corresponding_clause") = {"column_names"}
        /\ Data("corresponding_clause") = {}
    BY <2>2 DEF OperandNames, Data, Operands, Fields, corresponding_clause
  <2>4. VisitExact("corresponding_clause")
    <3>1. {m \in OperandNames("corresponding_clause") :
              <<"corresponding_clause", m>> \notin Promise!NotCounted \cup Barren}
             = {"column_names"}
      BY <2>3 DEF Promise!NotCounted, Barren
    <3>2. Row(<<"column_names">>, {"column_names"})
      BY Row1
    <3> QED BY <2>1, <3>1, <3>2 DEF VisitExact
  <2>5. CopyExact("corresponding_clause")
    BY <2>1, <2>2, <2>3
       DEF CopyExact, Copied, Compared, Ignored, Supplemental, Forgotten,
           Members, DeniesItself, corresponding_clause_members
  <2>6. LeastExact("corresponding_clause")
    BY <2>2 DEF LeastExact, Operands, Fields, corresponding_clause
  <2> QED BY <2>4, <2>5, <2>6 DEF Exact
<1>11. Exact("with_element")
  <2>1. /\ "with_element" \in DOMAIN Class
        /\ Visits["with_element"] = <<"name", "column_names", "expression">>
    BY GroupsOfClasses DEF ClauseVisits
  <2>2. /\ Class["with_element"] = with_element
        /\ MembersOf["with_element"] = with_element_members
    BY DEF Class, MembersOf
  <2>3. /\ OperandNames("with_element") = {"name", "column_names", "expression"}
        /\ Data("with_element") = {}
    BY <2>2 DEF OperandNames, Data, Operands, Fields, with_element
  <2>4. VisitExact("with_element")
    <3>1. {m \in OperandNames("with_element") :
              <<"with_element", m>> \notin Promise!NotCounted \cup Barren}
             = {"name", "column_names", "expression"}
      BY <2>3 DEF Promise!NotCounted, Barren
    <3>2. Row(<<"name", "column_names", "expression">>, {"name", "column_names", "expression"})
      BY Row3
    <3> QED BY <2>1, <3>1, <3>2 DEF VisitExact
  <2>5. CopyExact("with_element")
    BY <2>1, <2>2, <2>3
       DEF CopyExact, Copied, Compared, Ignored, Supplemental, Forgotten,
           Members, DeniesItself, with_element_members
  <2>6. LeastExact("with_element")
    BY <2>2 DEF LeastExact, Operands, Fields, with_element
  <2> QED BY <2>4, <2>5, <2>6 DEF Exact
<1>12. Exact("correlation_clause")
  <2>1. /\ "correlation_clause" \in DOMAIN Class
        /\ Visits["correlation_clause"] = <<"correlation_name", "column_names">>
    BY GroupsOfClasses DEF ClauseVisits
  <2>2. /\ Class["correlation_clause"] = correlation_clause
        /\ MembersOf["correlation_clause"] = correlation_clause_members
    BY DEF Class, MembersOf
  <2>3. /\ OperandNames("correlation_clause") = {"correlation_name", "column_names"}
        /\ Data("correlation_clause") = {}
    BY <2>2 DEF OperandNames, Data, Operands, Fields, correlation_clause
  <2>4. VisitExact("correlation_clause")
    <3>1. {m \in OperandNames("correlation_clause") :
              <<"correlation_clause", m>> \notin Promise!NotCounted \cup Barren}
             = {"correlation_name", "column_names"}
      BY <2>3 DEF Promise!NotCounted, Barren
    <3>2. Row(<<"correlation_name", "column_names">>, {"correlation_name", "column_names"})
      BY Row2
    <3> QED BY <2>1, <3>1, <3>2 DEF VisitExact
  <2>5. CopyExact("correlation_clause")
    BY <2>1, <2>2, <2>3
       DEF CopyExact, Copied, Compared, Ignored, Supplemental, Forgotten,
           Members, correlation_clause_members
  <2>6. LeastExact("correlation_clause")
    BY <2>2 DEF LeastExact, Operands, Fields, correlation_clause
  <2> QED BY <2>4, <2>5, <2>6 DEF Exact
<1>13. Exact("case_when_clause")
  <2>1. /\ "case_when_clause" \in DOMAIN Class
        /\ Visits["case_when_clause"] = <<"when", "result">>
    BY GroupsOfClasses DEF ClauseVisits
  <2>2. /\ Class["case_when_clause"] = case_when_clause
        /\ MembersOf["case_when_clause"] = case_when_clause_members
    BY DEF Class, MembersOf
  <2>3. /\ OperandNames("case_when_clause") = {"when", "result"}
        /\ Data("case_when_clause") = {}
    BY <2>2 DEF OperandNames, Data, Operands, Fields, case_when_clause
  <2>4. VisitExact("case_when_clause")
    <3>1. {m \in OperandNames("case_when_clause") :
              <<"case_when_clause", m>> \notin Promise!NotCounted \cup Barren}
             = {"when", "result"}
      BY <2>3 DEF Promise!NotCounted, Barren
    <3>2. Row(<<"when", "result">>, {"when", "result"})
      BY Row2
    <3> QED BY <2>1, <3>1, <3>2 DEF VisitExact
  <2>5. CopyExact("case_when_clause")
    BY <2>1, <2>2, <2>3
       DEF CopyExact, Copied, Compared, Ignored, Supplemental, Forgotten,
           Members, DeniesItself, case_when_clause_members
  <2>6. LeastExact("case_when_clause")
    BY <2>2 DEF LeastExact, Operands, Fields, case_when_clause
  <2> QED BY <2>4, <2>5, <2>6 DEF Exact
<1>14. Exact("field_definition")
  <2>1. /\ "field_definition" \in DOMAIN Class
        /\ Visits["field_definition"] = <<"name", "type", "collation">>
    BY GroupsOfClasses DEF ClauseVisits
  <2>2. /\ Class["field_definition"] = field_definition
        /\ MembersOf["field_definition"] = field_definition_members
    BY DEF Class, MembersOf
  <2>3. /\ OperandNames("field_definition") = {"name", "type", "collation"}
        /\ Data("field_definition") = {}
    BY <2>2 DEF OperandNames, Data, Operands, Fields, field_definition
  <2>4. VisitExact("field_definition")
    <3>1. {m \in OperandNames("field_definition") :
              <<"field_definition", m>> \notin Promise!NotCounted \cup Barren}
             = {"name", "type", "collation"}
      BY <2>3 DEF Promise!NotCounted, Barren
    <3>2. Row(<<"name", "type", "collation">>, {"name", "type", "collation"})
      BY Row3
    <3> QED BY <2>1, <3>1, <3>2 DEF VisitExact
  <2>5. CopyExact("field_definition")
    BY <2>1, <2>2, <2>3
       DEF CopyExact, Copied, Compared, Ignored, Supplemental, Forgotten,
           Members, DeniesItself, field_definition_members
  <2>6. LeastExact("field_definition")
    BY <2>2 DEF LeastExact, Operands, Fields, field_definition
  <2> QED BY <2>4, <2>5, <2>6 DEF Exact
<1> QED BY <1>1, <1>2, <1>3, <1>4, <1>5, <1>6, <1>7, <1>8, <1>9, <1>10, <1>11,
           <1>12, <1>13, <1>14 DEF ClauseVisits

(* No class forgets a member: in its handler, its copy, its comparison.    *)
LEMMA TablesExact ==
    ASSUME NEW c \in DOMAIN Class
    PROVE  Exact(c)
BY GroupsOfClasses, StatementClasses, ElementClasses, QueryClasses, TableClasses,
   ScalarClasses, InvocationClasses, LeafClasses, ClauseClasses

-----------------------------------------------------------------------------
(* An element that stands by value in its parent holds no other such       *)
(* element, and the elements of the lists without nodes hold nothing.      *)
LEMMA InlineOperands ==
    ASSUME NEW c \in Inline, NEW f \in Operands(c)
    PROVE  f.of \cap Inline = {} /\ c # "privilege_action"
<1> USE DEF One, Optional, Many, Some, Datum, Operands, Fields
<1>1. /\ Names \cap Inline = {} /\ Simple \cap Inline = {}
      /\ Types \cap Inline = {} /\ Scalars \cap Inline = {}
      /\ Queries \cap Inline = {} /\ Constraints \cap Inline = {}
      /\ GroupingElements \cap Inline = {}
  BY FamiliesOutOfLine
<1>2. CASE c = "sort_element"
  <2>1. Class["sort_element"] = sort_element
    BY DEF Class
  <2> QED BY <1>1, <1>2, <2>1 DEF sort_element
<1>3. CASE c = "target_element"
  <2>1. Class["target_element"] = target_element
    BY DEF Class
  <2> QED BY <1>1, <1>3, <2>1 DEF target_element
<1>4. CASE c = "field_definition"
  <2>1. Class["field_definition"] = field_definition
    BY DEF Class
  <2> QED BY <1>1, <1>4, <2>1 DEF field_definition
<1>5. CASE c = "case_when_clause"
  <2>1. Class["case_when_clause"] = case_when_clause
    BY DEF Class
  <2> QED BY <1>1, <1>5, <2>1 DEF case_when_clause
<1>6. CASE c = "group_by_clause"
  <2>1. Class["group_by_clause"] = group_by_clause
    BY DEF Class
  <2> QED BY <1>1, <1>6, <2>1 DEF group_by_clause
<1>7. CASE c = "corresponding_clause"
  <2>1. Class["corresponding_clause"] = corresponding_clause
    BY DEF Class
  <2> QED BY <1>1, <1>7, <2>1 DEF corresponding_clause
<1>8. CASE c = "with_element"
  <2>1. Class["with_element"] = with_element
    BY DEF Class
  <2> QED BY <1>1, <1>8, <2>1 DEF with_element
<1>9. CASE c = "correlation_clause"
  <2>1. Class["correlation_clause"] = correlation_clause
    BY DEF Class
  <2> QED BY <1>1, <1>9, <2>1 DEF correlation_clause
<1>10. CASE c = "set_element"
  <2>1. Class["set_element"] = set_element
    BY DEF Class
  <2> QED BY <1>1, <1>10, <2>1 DEF set_element
<1>11. CASE c = "storage_parameter"
  <2>1. Class["storage_parameter"] = storage_parameter
    BY DEF Class
  <2> QED BY <1>1, <1>11, <2>1 DEF storage_parameter
<1>12. CASE c = "column_constraint_definition"
  <2>1. Class["column_constraint_definition"] = column_constraint_definition
    BY DEF Class
  <2> QED BY <1>1, <1>12, <2>1 DEF column_constraint_definition
<1>13. CASE c = "privilege_action"
  <2>1. Class["privilege_action"] = privilege_action
    BY DEF Class
  <2> QED BY <1>1, <1>13, <2>1 DEF privilege_action
<1>14. CASE c = "privilege_object"
  <2>1. Class["privilege_object"] = privilege_object
    BY DEF Class
  <2> QED BY <1>1, <1>14, <2>1 DEF privilege_object
<1>15. CASE c = "privilege_user"
  <2>1. Class["privilege_user"] = privilege_user
    BY DEF Class
  <2> QED BY <1>1, <1>15, <2>1 DEF privilege_user
<1> QED BY <1>2, <1>3, <1>4, <1>5, <1>6, <1>7, <1>8, <1>9, <1>10, <1>11, <1>12, <1>13, <1>14, <1>15 DEF Inline
(* The lists without nodes hold privilege actions.                         *)
LEMMA BarrenOperands ==
    ASSUME NEW c \in DOMAIN Class, NEW f \in Operands(c), <<c, f.name>> \in Barren
    PROVE  f.of = {"privilege_action"}
<1>1. /\ Class["grant_privilege_statement"] = grant_privilege_statement
      /\ Class["revoke_privilege_statement"] = revoke_privilege_statement
  BY DEF Class
<1>2. c \in {"grant_privilege_statement", "revoke_privilege_statement"} /\ f.name = "actions"
  BY DEF Barren
<1>3. CASE c = "grant_privilege_statement"
  BY <1>1, <1>2, <1>3 DEF Operands, Fields, Some, grant_privilege_statement
<1>4. CASE c = "revoke_privilege_statement"
  BY <1>1, <1>2, <1>4 DEF Operands, Fields, Some, revoke_privilege_statement
<1> QED BY <1>2, <1>3, <1>4

(* The compilation unit has statements; an empty one has nothing.          *)
LEMMA RootOperands ==
    /\ Operands("compilation_unit") = {Many("statements", Statements, "statement")}
    /\ Operands("empty_statement") = {}
<1>1. /\ Class["compilation_unit"] = compilation_unit
      /\ Class["empty_statement"] = empty_statement
  BY DEF Class
<1>2. Operands("compilation_unit") = {Many("statements", Statements, "statement")}
  BY <1>1 DEF Operands, Fields, compilation_unit, Many, Datum
<1>3. Operands("empty_statement") = {}
  BY <1>1 DEF Operands, Fields, empty_statement
<1> QED BY <1>2, <1>3

-----------------------------------------------------------------------------
(* Paths of trees.                                                         *)
Steps == STRING \X Nat

(* The nodes above a node are of the tree.                                 *)
LEMMA PathsOfTree ==
    ASSUME NEW tree, IsTree(tree), NEW p \in DOMAIN tree
    PROVE  p \in Seq(Steps) /\ \A n \in 0..Len(p) : SubSeq(p, 1, n) \in DOMAIN tree
<1>1. p \in Seq(Steps) /\ Len(p) \in Nat
  BY LenProperties DEF IsTree, Steps
<1> DEFINE Missing == {k \in Nat : k <= Len(p) /\ SubSeq(p, 1, Len(p) - k) \notin DOMAIN tree}
<1>2. Missing = {}
  <2> SUFFICES ASSUME Missing # {} PROVE FALSE
    OBVIOUS
  <2>1. PICK k \in Missing : \A l \in Missing : k <= l
    BY LeastNatural
  <2>2. k \in Nat /\ k <= Len(p) /\ SubSeq(p, 1, Len(p) - k) \notin DOMAIN tree
    OBVIOUS
  <2>3. k # 0
    <3>1. Len(p) - 0 = Len(p)
      BY <1>1
    <3> QED BY <1>1, <2>2, <3>1, SubSeqFull
  <2>4. k - 1 \in Nat /\ k - 1 \notin Missing /\ k - 1 <= Len(p)
    BY <1>1, <2>1, <2>2, <2>3
  <2>5. SubSeq(p, 1, Len(p) - (k - 1)) \in DOMAIN tree
    BY <2>4
  <2> DEFINE q == SubSeq(p, 1, Len(p) - (k - 1))
  <2>6. Len(p) - (k - 1) \in 0..Len(p) /\ Len(p) - (k - 1) >= 1 /\ (Len(p) - (k - 1)) - 1 = Len(p) - k
        /\ Len(p) - k \in 0..(Len(p) - (k - 1))
    BY <1>1, <2>2, <2>3
  <2>7. q \in Seq(Steps) /\ Len(q) = Len(p) - (k - 1) /\ Len(<<>>) = 0
    BY <1>1, <2>6, Prefix
  <2>8. SubSeq(q, 1, Len(p) - k) = SubSeq(p, 1, Len(p) - k)
    BY <1>1, <2>6, PrefixOfPrefix
  <2> HIDE DEF q
  <2>9. q # <<>>
    BY <2>6, <2>7
  <2>10. Parent(q) \in DOMAIN tree
    BY <2>5, <2>9 DEF IsTree, q
  <2> QED BY <2>2, <2>6, <2>7, <2>8, <2>10 DEF Parent
<1>3. ASSUME NEW n \in 0..Len(p) PROVE SubSeq(p, 1, n) \in DOMAIN tree
  <2>1. Len(p) - n \in Nat /\ Len(p) - n <= Len(p) /\ Len(p) - (Len(p) - n) = n
    BY <1>1
  <2> QED BY <1>2, <2>1
<1> QED BY <1>1, <1>3

(* Every member of a node holds as many children as it says.               *)
LEMMA ChildOfTree ==
    ASSUME NEW tree, IsTree(tree), NEW q \in DOMAIN tree,
           NEW m \in OperandNames(tree[q].class), NEW i \in 1..tree[q].size[m]
    PROVE  /\ Child(q, m, i) \in DOMAIN tree
           /\ Child(q, m, i) \in Seq(Steps) /\ Child(q, m, i) # <<>>
           /\ Len(Child(q, m, i)) = Len(q) + 1
           /\ Parent(Child(q, m, i)) = q /\ Member(Child(q, m, i)) = m
           /\ Child(q, m, i)[Len(q) + 1] = <<m, i>>
           /\ Under(q, Child(q, m, i))
<1>1. PICK f \in Operands(tree[q].class) : f.name = m
  BY DEF OperandNames
<1>2. Child(q, m, i) \in DOMAIN tree
  BY <1>1 DEF IsTree
<1> DEFINE p == Child(q, m, i)
           e == <<m, i>>
<1>3. p \in Seq(Steps) /\ q \in Seq(Steps) /\ Len(q) \in Nat
  BY <1>2, PathsOfTree, LenProperties
<1>4. p = Append(q, e) /\ p \in Seq(Steps \cup {e}) /\ q \in Seq(Steps \cup {e}) /\ e \in Steps \cup {e}
  <2>1. p = Append(q, e)
    BY DEF Child
  <2> HIDE DEF p, e
  <2>2. Steps \subseteq Steps \cup {e} /\ e \in Steps \cup {e}
    OBVIOUS
  <2> QED BY <1>3, <2>1, <2>2, SeqMonotonic
<1>5. e[1] = m
  OBVIOUS
<1> HIDE DEF p, e
<1>6. p # <<>> /\ Len(p) = Len(q) + 1 /\ p[Len(q) + 1] = e /\ Parent(p) = q
  BY <1>4, ChildOf
<1>7. Under(q, p)
  BY <1>4, <1>6, ParentOf
<1> QED BY <1>2, <1>3, <1>5, <1>6, <1>7 DEF p, e, Member

(* Every node but the root is a child of a member of its parent.           *)
LEMMA ParentInTree ==
    ASSUME NEW tree, IsTree(tree), NEW p \in DOMAIN tree, p # <<>>
    PROVE  /\ Parent(p) \in DOMAIN tree /\ Len(p) \in Nat /\ Len(p) >= 1
           /\ Len(Parent(p)) = Len(p) - 1 /\ Under(Parent(p), p)
           /\ Member(p) \in OperandNames(tree[Parent(p)].class)
           /\ \E i \in 1..tree[Parent(p)].size[Member(p)] : p = Child(Parent(p), Member(p), i)
           /\ \E f \in Operands(tree[Parent(p)].class) :
                 f.name = Member(p) /\ tree[p].class \in f.of
<1>1. p \in Seq(Steps)
  BY PathsOfTree
<1>2. /\ Len(p) \in Nat /\ Len(p) >= 1 /\ Len(Parent(p)) = Len(p) - 1 /\ Under(Parent(p), p)
      /\ p[Len(p)] \in Steps /\ p = Append(Parent(p), p[Len(p)])
  BY <1>1, ParentOf
<1> DEFINE i == p[Len(p)][2]
<1>3. /\ Parent(p) \in DOMAIN tree /\ Member(p) \in OperandNames(tree[Parent(p)].class)
      /\ i \in 1..tree[Parent(p)].size[Member(p)]
  BY DEF IsTree
<1>4. p[Len(p)] = <<Member(p), i>>
  BY <1>2 DEF Member, Steps
<1>5. p = Child(Parent(p), Member(p), i)
  BY <1>2, <1>4 DEF Child
<1>6. PICK f \in Operands(tree[Parent(p)].class) : f.name = Member(p)
  BY <1>3 DEF OperandNames
<1>7. tree[Child(Parent(p), f.name, i)].class \in f.of
  BY <1>3, <1>6 DEF IsTree
<1> QED BY <1>2, <1>3, <1>5, <1>6, <1>7

-----------------------------------------------------------------------------
(* What counts, and how deep it is.                                        *)

(* The promise speaks of the same classes, members and trees.              *)
LEMMA PromiseClass == Promise!Class = Class
BY DEF Promise!One, Promise!Optional, Promise!Many, Promise!Some,
       Promise!Datum, Promise!Names, Promise!Simple, Promise!Literals,
       Promise!Types, Promise!Scalars, Promise!QueryOperands, Promise!Queries,
       Promise!SelectElements, Promise!GroupingElements, Promise!Tables,
       Promise!JoinSpecifications, Promise!SchemaElements, Promise!Statements,
       Promise!TableElements, Promise!Constraints, Promise!AlterTableActions,
       Promise!compilation_unit, Promise!sort_element, Promise!target_element,
       Promise!name_simple, Promise!name_qualified, Promise!boolean,
       Promise!numeric, Promise!string, Promise!literal_datetime,
       Promise!literal_interval, Promise!special, Promise!type_simple,
       Promise!character_string, Promise!octet_string, Promise!bit_string,
       Promise!decimal, Promise!binary_numeric, Promise!type_datetime,
       Promise!type_interval, Promise!row, Promise!field_definition,
       Promise!user_defined, Promise!collection, Promise!literal_expression,
       Promise!variable_reference, Promise!host_parameter_reference,
       Promise!placeholder_reference, Promise!field_reference,
       Promise!case_expression, Promise!case_when_clause,
       Promise!cast_expression, Promise!unary_expression,
       Promise!scalar_binary_expression, Promise!extract_expression,
       Promise!trim_expression, Promise!value_constructor,
       Promise!scalar_subquery, Promise!comparison_predicate,
       Promise!quantified_comparison_predicate, Promise!between_predicate,
       Promise!in_predicate, Promise!pattern_match_predicate,
       Promise!table_predicate, Promise!function_invocation,
       Promise!builtin_function_invocation,
       Promise!builtin_set_function_invocation, Promise!new_invocation,
       Promise!method_invocation, Promise!static_method_invocation,
       Promise!current_of_cursor, Promise!query, Promise!group_by_clause,
       Promise!query_table_reference, Promise!table_value_constructor,
       Promise!query_binary_expression, Promise!corresponding_clause,
       Promise!with_expression, Promise!with_element, Promise!select_column,
       Promise!select_asterisk, Promise!grouping_column,
       Promise!table_table_reference, Promise!unnest, Promise!join,
       Promise!table_subquery, Promise!apply, Promise!correlation_clause,
       Promise!join_condition, Promise!join_columns, Promise!empty_statement,
       Promise!select_statement, Promise!insert_statement,
       Promise!update_statement, Promise!set_element,
       Promise!delete_statement, Promise!table_definition,
       Promise!storage_parameter, Promise!column_definition,
       Promise!column_constraint_definition,
       Promise!table_constraint_definition, Promise!simple_constraint,
       Promise!expression_constraint, Promise!key_constraint,
       Promise!referential_constraint, Promise!identity_constraint,
       Promise!index_definition, Promise!view_definition,
       Promise!sequence_definition, Promise!schema_definition,
       Promise!alter_table_statement, Promise!rename_table_action,
       Promise!rename_column_action, Promise!alter_index_statement,
       Promise!rename_index_action, Promise!drop_statement,
       Promise!truncate_table_statement, Promise!grant_privilege_statement,
       Promise!revoke_privilege_statement, Promise!privilege_action,
       Promise!privilege_object, Promise!privilege_user, Promise!Class, One,
       Optional, Many, Some, Datum, Names, Simple, Literals, Types, Scalars,
       QueryOperands, Queries, SelectElements, GroupingElements, Tables,
       JoinSpecifications, SchemaElements, Statements, TableElements,
       Constraints, AlterTableActions, compilation_unit, sort_element,
       target_element, name_simple, name_qualified, boolean, numeric, string,
       literal_datetime, literal_interval, special, type_simple,
       character_string, octet_string, bit_string, decimal, binary_numeric,
       type_datetime, type_interval, row, field_definition, user_defined,
       collection, literal_expression, variable_reference,
       host_parameter_reference, placeholder_reference, field_reference,
       case_expression, case_when_clause, cast_expression, unary_expression,
       scalar_binary_expression, extract_expression, trim_expression,
       value_constructor, scalar_subquery, comparison_predicate,
       quantified_comparison_predicate, between_predicate, in_predicate,
       pattern_match_predicate, table_predicate, function_invocation,
       builtin_function_invocation, builtin_set_function_invocation,
       new_invocation, method_invocation, static_method_invocation,
       current_of_cursor, query, group_by_clause, query_table_reference,
       table_value_constructor, query_binary_expression, corresponding_clause,
       with_expression, with_element, select_column, select_asterisk,
       grouping_column, table_table_reference, unnest, join, table_subquery,
       apply, correlation_clause, join_condition, join_columns,
       empty_statement, select_statement, insert_statement, update_statement,
       set_element, delete_statement, table_definition, storage_parameter,
       column_definition, column_constraint_definition,
       table_constraint_definition, simple_constraint, expression_constraint,
       key_constraint, referential_constraint, identity_constraint,
       index_definition, view_definition, sequence_definition,
       schema_definition, alter_table_statement, rename_table_action,
       rename_column_action, alter_index_statement, rename_index_action,
       drop_statement, truncate_table_statement, grant_privilege_statement,
       revoke_privilege_statement, privilege_action, privilege_object,
       privilege_user, Class

(* ... and counts them with the same operators.                            *)
LEMMA PromiseTerms ==
    /\ Promise!Inline = Inline
    /\ \A c : Promise!Operands(c) = Operands(c)
    /\ \A tree : Promise!WithoutBlank(tree) = WithoutBlank(tree)
    /\ \A S : Promise!Cardinality(S) = Cardinality(S) /\ Promise!Max(S) = Max(S)
<1>1. Promise!Inline = Inline
  BY DEF Promise!Inline, Inline
<1>2. \A c : Promise!Operands(c) = Operands(c)
  BY PromiseClass DEF Promise!Operands, Operands, Promise!Fields, Fields
<1>3. \A tree : Promise!WithoutBlank(tree) = WithoutBlank(tree)
  BY DEF Promise!WithoutBlank, WithoutBlank, Promise!Child, Child
<1>4. \A S : Promise!Cardinality(S) = Cardinality(S)
  BY DEF Promise!Cardinality, Cardinality
<1>5. \A S : Promise!Max(S) = Max(S)
  BY DEF Promise!Max, Max
<1> QED BY <1>1, <1>2, <1>3, <1>4, <1>5

(* No step of the path goes through a member that is left out.             *)
Seen(tree, p) == \A n \in DOMAIN p : Promise!Step(tree, p, n) \notin Promise!NotCounted

(* The lengths of the prefixes of a path that are nodes of the count.      *)
Levels(tree, p) == {n \in DOMAIN p : tree[SubSeq(p, 1, n)].class \notin Inline}

(* A child is seen if its parent is, and its member is not left out.       *)
LEMMA SeenChild ==
    ASSUME NEW tree, IsTree(tree), NEW p \in DOMAIN tree, p # <<>>
    PROVE  Seen(tree, p) <=>
              /\ Seen(tree, Parent(p))
              /\ <<tree[Parent(p)].class, Member(p)>> \notin Promise!NotCounted
<1> DEFINE q == Parent(p)
<1>1. /\ p \in Seq(Steps) /\ Len(p) \in Nat /\ Len(p) >= 1
      /\ q \in Seq(Steps) /\ Len(q) = Len(p) - 1
  BY PathsOfTree, ParentOf
<1>2. DOMAIN p = 1..Len(p) /\ DOMAIN q = 1..Len(q)
  BY <1>1, LenProperties
<1>3. Promise!Step(tree, p, Len(p)) = <<tree[q].class, Member(p)>>
  BY DEF Promise!Step, Parent, Member
<1>4. ASSUME NEW n \in 1..Len(q)
      PROVE  Promise!Step(tree, p, n) = Promise!Step(tree, q, n)
  <2>1. Len(p) - 1 \in 0..Len(p) /\ n - 1 \in 0..(Len(p) - 1) /\ n \in 1..(Len(p) - 1)
    BY <1>1
  <2>2. SubSeq(q, 1, n - 1) = SubSeq(p, 1, n - 1)
    BY <1>1, <2>1, PrefixOfPrefix DEF Parent
  <2>3. q[n] = p[n]
    BY <1>1, <2>1, Prefix DEF Parent
  <2> HIDE DEF q
  <2> QED BY <2>2, <2>3 DEF Promise!Step
<1>5. 1..Len(p) = 1..Len(q) \cup {Len(p)}
  BY <1>1
<1> HIDE DEF q
<1>6. Seen(tree, p) <=> Seen(tree, q) /\ Promise!Step(tree, p, Len(p)) \notin Promise!NotCounted
  BY <1>2, <1>4, <1>5 DEF Seen
<1> QED BY <1>3, <1>6 DEF q

(* All nodes above a node that is seen are seen.                           *)
LEMMA SeenAbove ==
    ASSUME NEW tree, IsTree(tree), NEW p \in DOMAIN tree, Seen(tree, p), NEW q \in DOMAIN tree,
           Under(q, p)
    PROVE  Seen(tree, q)
<1>1. /\ p \in Seq(Steps) /\ Len(p) \in Nat /\ q \in Seq(Steps) /\ Len(q) \in 0..Len(p)
      /\ SubSeq(p, 1, Len(q)) = q
  BY PathsOfTree, LenProperties DEF Under
<1>2. DOMAIN p = 1..Len(p) /\ DOMAIN q = 1..Len(q)
  BY <1>1, LenProperties
<1> SUFFICES ASSUME NEW n \in DOMAIN q
             PROVE  Promise!Step(tree, q, n) \notin Promise!NotCounted
  BY DEF Seen
<1>3. n \in 1..Len(q) /\ n - 1 \in 0..Len(q) /\ n \in DOMAIN p
  BY <1>1, <1>2
<1>4. SubSeq(q, 1, n - 1) = SubSeq(p, 1, n - 1)
  BY <1>1, <1>3, PrefixOfPrefix
<1>5. q[n] = p[n]
  BY <1>1, <1>3, Prefix
<1>6. Promise!Step(tree, q, n) = Promise!Step(tree, p, n)
  BY <1>4, <1>5 DEF Promise!Step
<1> QED BY <1>3, <1>6 DEF Seen

(* The nodes that count are those seen, without the elements that stand by *)
(* value in their parent.                                                  *)
LEMMA NodesAre ==
    ASSUME NEW tree
    PROVE  Promise!Nodes(tree) =
              {p \in DOMAIN tree \ {<<>>} : tree[p].class \notin Inline /\ Seen(tree, p)}
BY PromiseTerms DEF Promise!Nodes, Seen

(* The depth of a node is a number.                                        *)
LEMMA LevelsFinite ==
    ASSUME NEW tree, IsTree(tree), NEW p \in DOMAIN tree
    PROVE  IsFiniteSet(Levels(tree, p)) /\ Promise!Depth(tree, p) = Cardinality(Levels(tree, p))
           /\ Promise!Depth(tree, p) \in Nat
<1>1. p \in Seq(Steps) /\ Len(p) \in Nat /\ DOMAIN p = 1..Len(p)
  BY PathsOfTree, LenProperties
<1>2. IsFiniteSet(1..Len(p)) /\ Levels(tree, p) \in SUBSET (1..Len(p))
  BY <1>1, FS_Interval DEF Levels
<1>3. IsFiniteSet(Levels(tree, p))
  BY <1>2, FS_Subset
<1>4. Promise!Depth(tree, p) = Cardinality(Levels(tree, p))
  <2>1. {n \in DOMAIN p : tree[SubSeq(p, 1, n)].class \notin Promise!Inline} = Levels(tree, p)
    BY PromiseTerms DEF Levels
  <2> QED BY <2>1, PromiseTerms DEF Promise!Depth
<1> QED BY <1>3, <1>4, FS_CardinalityType

(* A node is one deeper than its parent, an element by value is not.       *)
LEMMA DepthChild ==
    ASSUME NEW tree, IsTree(tree), NEW p \in DOMAIN tree, p # <<>>
    PROVE  Promise!Depth(tree, p) =
              IF tree[p].class \in Inline THEN Promise!Depth(tree, Parent(p))
              ELSE Promise!Depth(tree, Parent(p)) + 1
<1> DEFINE q == Parent(p)
<1>1. /\ p \in Seq(Steps) /\ Len(p) \in Nat /\ Len(p) >= 1
      /\ q \in Seq(Steps) /\ Len(q) = Len(p) - 1 /\ q \in DOMAIN tree
  BY PathsOfTree, ParentOf, ParentInTree
<1>2. DOMAIN p = 1..Len(p) /\ DOMAIN q = 1..Len(q) /\ SubSeq(p, 1, Len(p)) = p
  BY <1>1, LenProperties, SubSeqFull
<1>3. ASSUME NEW n \in 1..Len(q)
      PROVE  SubSeq(p, 1, n) = SubSeq(q, 1, n)
  <2>1. Len(p) - 1 \in 0..Len(p) /\ n \in 0..(Len(p) - 1)
    BY <1>1
  <2> QED BY <1>1, <2>1, PrefixOfPrefix DEF Parent
<1>4. 1..Len(p) = 1..Len(q) \cup {Len(p)} /\ Len(p) \notin 1..Len(q)
  BY <1>1
<1>5. IsFiniteSet(Levels(tree, q)) /\ Promise!Depth(tree, q) = Cardinality(Levels(tree, q))
      /\ Promise!Depth(tree, p) = Cardinality(Levels(tree, p))
  BY <1>1, LevelsFinite
<1> HIDE DEF q
<1>6. CASE tree[p].class \in Inline
  <2>1. Levels(tree, p) = Levels(tree, q)
    BY <1>2, <1>3, <1>4, <1>6 DEF Levels
  <2> QED BY <1>5, <1>6, <2>1 DEF q
<1>7. CASE tree[p].class \notin Inline
  <2>1. Levels(tree, p) = Levels(tree, q) \cup {Len(p)} /\ Len(p) \notin Levels(tree, q)
    BY <1>2, <1>3, <1>4, <1>7 DEF Levels
  <2> QED BY <1>5, <1>7, <2>1, FS_AddElement DEF q
<1> QED BY <1>6, <1>7

(* The root is at depth 0, and is seen.                                    *)
LEMMA DepthOfRoot ==
    ASSUME NEW tree, IsTree(tree)
    PROVE  Promise!Depth(tree, <<>>) = 0 /\ Seen(tree, <<>>)
<1>1. DOMAIN <<>> = {}
  OBVIOUS
<1>2. Levels(tree, <<>>) = {} /\ Seen(tree, <<>>)
  BY <1>1 DEF Levels, Seen
<1>3. <<>> \in DOMAIN tree
  BY DEF IsTree
<1> QED BY <1>2, <1>3, LevelsFinite, FS_EmptySet

-----------------------------------------------------------------------------
(* The statements are the children of the root.                            *)
LEMMA ChildOfRoot ==
    ASSUME NEW tree, IsTree(tree), tree[<<>>].class = "compilation_unit",
           NEW i \in 1..tree[<<>>].size.statements
    PROVE  LET child == Child(<<>>, "statements", i) IN
           /\ child \in DOMAIN tree /\ child # <<>> /\ Parent(child) = <<>>
           /\ Len(child) = 1 /\ child[1] = <<"statements", i>>
<1> DEFINE child == Child(<<>>, "statements", i)
<1>1. <<>> \in DOMAIN tree
  BY DEF IsTree
<1>2. "statements" \in OperandNames("compilation_unit")
  <2>1. Many("statements", Statements, "statement").name = "statements"
    BY DEF Many
  <2> QED BY <2>1, RootOperands DEF OperandNames
<1> DEFINE m == "statements"
           q == <<>>
<1> HIDE DEF m, q
<1>3. /\ Child(q, m, i) \in DOMAIN tree /\ Child(q, m, i) # <<>>
      /\ Len(Child(q, m, i)) = Len(q) + 1
      /\ Parent(Child(q, m, i)) = q
      /\ Child(q, m, i)[Len(q) + 1] = <<m, i>>
  <2>1. q \in DOMAIN tree /\ m \in OperandNames(tree[q].class) /\ i \in 1..tree[q].size[m]
    BY <1>1, <1>2 DEF m, q
  <2> QED BY <2>1, ChildOfTree
<1>4. Len(q) + 1 = 1
  BY DEF q
<1> QED BY <1>3, <1>4 DEF m, q

(* The tree without the empty statement behind the last semicolon is one.  *)
LEMMA WithoutBlankTree ==
    ASSUME NEW tree, IsTree(tree), tree[<<>>].class = "compilation_unit"
    PROVE  IsTree(WithoutBlank(tree))
<1> DEFINE n == tree[<<>>].size.statements
           blank == Child(<<>>, "statements", n)
           u == WithoutBlank(tree)
           root == [tree[<<>>] EXCEPT !.size.statements = n - 1]
<1>1. /\ <<>> \in DOMAIN tree /\ IsNode(tree[<<>>])
      /\ OperandNames("compilation_unit") = {"statements"}
      /\ OperandNames("empty_statement") = {}
  <2>1. <<>> \in DOMAIN tree /\ IsNode(tree[<<>>])
    BY DEF IsTree
  <2>2. OperandNames("compilation_unit") = {"statements"}
    <3>1. Many("statements", Statements, "statement").name = "statements"
      BY DEF Many
    <3> QED BY <3>1, RootOperands DEF OperandNames
  <2>3. OperandNames("empty_statement") = {}
    BY RootOperands DEF OperandNames
  <2> QED BY <2>1, <2>2, <2>3
<1>2. tree[<<>>].size \in [{"statements"} -> Nat] /\ n \in Nat
  BY <1>1 DEF IsNode
<1>3. CASE n = 0 \/ tree[blank].class # "empty_statement"
  BY <1>3 DEF WithoutBlank
<1>4. CASE n # 0 /\ tree[blank].class = "empty_statement"
  <2>1. u = [p \in DOMAIN tree \ {blank} |-> IF p = <<>> THEN root ELSE tree[p]]
    BY <1>4 DEF WithoutBlank
  <2>2. n \in 1..n
    BY <1>2, <1>4
  <2>3. /\ blank \in DOMAIN tree /\ blank # <<>> /\ Parent(blank) = <<>>
        /\ Len(blank) = 1 /\ blank[1] = <<"statements", n>>
    <3>1. n \in 1..tree[<<>>].size.statements
      BY <2>2
    <3> HIDE DEF n
    <3> QED BY <3>1, ChildOfRoot
  <2> HIDE DEF u, root, blank
  <2>4. /\ DOMAIN u = DOMAIN tree \ {blank} /\ u[<<>>] = root /\ <<>> \in DOMAIN u
        /\ \A p \in DOMAIN u : p # <<>> => u[p] = tree[p]
    BY <1>1, <2>1, <2>3
  <2>5. /\ root = [class |-> root.class, size |-> root.size, datum |-> root.datum]
        /\ root.class = "compilation_unit" /\ root.datum = tree[<<>>].datum
        /\ root.size = [m \in {"statements"} |-> n - 1]
    <3>1. tree[<<>>] = [class |-> tree[<<>>].class, size |-> tree[<<>>].size,
                        datum |-> tree[<<>>].datum]
      BY <1>1 DEF IsNode
    <3> DEFINE node == tree[<<>>]
    <3>2. node.size = [m \in {"statements"} |-> n]
      BY <1>2
    <3>3. root = [class |-> node.class, size |-> [node.size EXCEPT !["statements"] = n - 1],
                  datum |-> node.datum]
      BY <3>1 DEF root
    <3>4. [node.size EXCEPT !["statements"] = n - 1] = [m \in {"statements"} |-> n - 1]
      BY <3>2
    <3> QED BY <3>3, <3>4
  <2>6. IsNode(root) /\ n - 1 \in Nat
    <3>1. n - 1 \in Nat
      BY <1>2, <1>4
    <3>2. root.size \in [{"statements"} -> Nat]
      BY <2>5, <3>1
    <3>3. "compilation_unit" \in DOMAIN Class /\ tree[<<>>].datum \in [Data("compilation_unit") -> {0, 1}]
      BY <1>1 DEF IsNode
    <3> QED BY <1>1, <2>5, <3>1, <3>2, <3>3 DEF IsNode
  <2>7. /\ u = [p \in DOMAIN u |-> u[p]] /\ IsFiniteSet(DOMAIN u)
        /\ DOMAIN u \subseteq Seq(STRING \X Nat)
    <3>1. IsFiniteSet(DOMAIN tree) /\ DOMAIN tree \subseteq Seq(STRING \X Nat)
      BY DEF IsTree
    <3>2. IsFiniteSet(DOMAIN u)
      BY <2>4, <3>1, FS_RemoveElement
    <3>3. u = [p \in DOMAIN u |-> u[p]]
      BY <2>1
    <3> QED BY <2>4, <3>1, <3>2, <3>3
  <2>8. ASSUME NEW p \in DOMAIN u, p # <<>>
        PROVE  /\ IsNode(u[p])
               /\ Parent(p) \in DOMAIN u
               /\ Member(p) \in OperandNames(u[Parent(p)].class)
               /\ p[Len(p)][2] \in 1..u[Parent(p)].size[Member(p)]
    <3>1. /\ p \in DOMAIN tree /\ p # blank /\ u[p] = tree[p] /\ IsNode(tree[p])
          /\ Parent(p) \in DOMAIN tree
          /\ Member(p) \in OperandNames(tree[Parent(p)].class)
          /\ p[Len(p)][2] \in 1..tree[Parent(p)].size[Member(p)]
      BY <2>4, <2>8 DEF IsTree
    <3>2. Parent(p) # blank
      BY <1>1, <1>4, <3>1 DEF blank
    <3>3. CASE Parent(p) # <<>>
      BY <2>4, <3>1, <3>2, <3>3
    <3>4. CASE Parent(p) = <<>>
      <4>1. Member(p) = "statements"
        BY <1>1, <3>1, <3>4
      <4>2. PICK i \in 1..n : p = Child(<<>>, "statements", i)
        BY <2>8, <3>1, <3>4, <4>1, ParentInTree
      <4>3. i # n
        BY <3>1, <4>2 DEF blank
      <4>4. Len(p) = 1 /\ p[1] = <<"statements", i>>
        <5>1. i \in 1..tree[<<>>].size.statements
          BY <4>2
        <5> QED BY <4>2, <5>1, ChildOfRoot
      <4>5. p[Len(p)][2] = i
        BY <4>4
      <4>6. i \in 1..n - 1
        BY <1>2, <4>2, <4>3
      <4> QED BY <1>1, <2>4, <2>5, <3>1, <3>4, <4>1, <4>5, <4>6
    <3> QED BY <3>3, <3>4
  <2>9. ASSUME NEW p \in DOMAIN u, NEW f \in Operands(u[p].class)
        PROVE  /\ u[p].size[f.name] >= f.least
               /\ f.kind = "none" => u[p].size[f.name] <= f.most
               /\ \A i \in 1..u[p].size[f.name] :
                     Child(p, f.name, i) \in DOMAIN u /\ u[Child(p, f.name, i)].class \in f.of
    <3>1. CASE p = <<>>
      <4>1. f = Many("statements", Statements, "statement") /\ u[p] = root
        BY <2>4, <2>5, <2>9, <3>1, RootOperands
      <4>2. /\ f.name = "statements" /\ f.least = 0 /\ f.kind = "statement"
            /\ f \in Operands(tree[<<>>].class)
        BY <4>1, RootOperands DEF Many
      <4>3. u[p].size[f.name] = n - 1
        BY <2>5, <4>1, <4>2
      <4>4. ASSUME NEW i \in 1..n - 1
            PROVE  Child(<<>>, "statements", i) \in DOMAIN u
                   /\ u[Child(<<>>, "statements", i)].class \in f.of
        <5>1. i \in 1..n /\ i # n
          BY <1>2, <4>4
        <5> DEFINE child == Child(<<>>, "statements", i)
        <5>2. child \in DOMAIN tree /\ tree[child].class \in f.of
          BY <1>1, <4>2, <5>1 DEF IsTree
        <5>3. child # <<>> /\ child[1] = <<"statements", i>>
          <6>1. i \in 1..tree[<<>>].size.statements
            BY <5>1
          <6> QED BY <6>1, ChildOfRoot
        <5>4. child # blank
          BY <2>3, <5>1, <5>3
        <5> QED BY <2>4, <5>2, <5>3, <5>4
      <4> QED BY <2>6, <3>1, <4>2, <4>3, <4>4
    <3>2. CASE p # <<>>
      <4>1. u[p] = tree[p] /\ p \in DOMAIN tree
        BY <2>4, <3>2
      <4>2. /\ tree[p].size[f.name] >= f.least
            /\ f.kind = "none" => tree[p].size[f.name] <= f.most
            /\ \A i \in 1..tree[p].size[f.name] :
                  Child(p, f.name, i) \in DOMAIN tree /\ tree[Child(p, f.name, i)].class \in f.of
        BY <2>9, <4>1 DEF IsTree
      <4>3. ASSUME NEW i \in 1..tree[p].size[f.name]
            PROVE  Child(p, f.name, i) \in DOMAIN u /\ u[Child(p, f.name, i)] = tree[Child(p, f.name, i)]
        <5>1. f.name \in OperandNames(tree[p].class)
          BY <2>9, <4>1 DEF OperandNames
        <5>2. Parent(Child(p, f.name, i)) = p /\ Child(p, f.name, i) # <<>>
          BY <4>1, <5>1, ChildOfTree
        <5>3. Child(p, f.name, i) # blank
          BY <2>3, <3>2, <5>2
        <5> QED BY <2>4, <4>2, <5>2, <5>3
      <4> QED BY <4>1, <4>2, <4>3
    <3> QED BY <3>1, <3>2
  <2>10. IsNode(u[<<>>])
    BY <2>4, <2>6
  <2>11. IsTree(u)
    BY <2>4, <2>7, <2>8, <2>9, <2>10 DEF IsTree
  <2> QED BY <2>11 DEF u
<1> QED BY <1>3, <1>4

-----------------------------------------------------------------------------
(* The nodes a handler accepts.                                            *)
GoesThrough(q, p) ==
    <<unit[q].class, Member(p)>> \notin Promise!NotCounted \cup Barren

Children(q) == {p \in DOMAIN unit \ {<<>>} : Parent(p) = q /\ GoesThrough(q, p)}

Entered(q) ==
    {p \in Children(q) : unit[p].class \notin Inline}
    \cup {p \in DOMAIN unit \ {<<>>} :
             /\ Parent(p) \in Children(q) /\ unit[Parent(p)].class \in Inline
             /\ GoesThrough(Parent(p), p)}

(* A handler goes into the children of the members it lists, each once.    *)
LEMMA VisitedAre ==
    ASSUME IsTree(unit), NEW q \in DOMAIN unit
    PROVE  Row(Visited(q), Children(q))
<1> DEFINE c == unit[q].class
           members == Visits[c]
           names == {m \in OperandNames(c) : <<c, m>> \notin Promise!NotCounted \cup Barren}
           size == unit[q].size
           rows == [k \in DOMAIN members |-> [i \in 1..size[members[k]] |-> Child(q, members[k], i)]]
<1>1. Visited(q) = FlattenSeq(rows)
  BY DEF Visited
<1>2. c \in DOMAIN Class /\ size \in [OperandNames(c) -> Nat]
  BY DEF IsTree, IsNode
<1>3. Row(members, names)
  BY <1>2, TablesExact DEF Exact, VisitExact
<1>4. /\ members \in Seq(names) /\ IsInjective(members) /\ \A x : Has(members, x) <=> x \in names
      /\ DOMAIN members = 1..Len(members) /\ Len(members) \in Nat
  BY <1>3, LenProperties DEF Row
<1> HIDE DEF members
<1>5. ASSUME NEW k \in DOMAIN members
      PROVE  members[k] \in names /\ members[k] \in OperandNames(c) /\ size[members[k]] \in Nat
  <2>1. members[k] \in names
    BY <1>4 DEF Has
  <2> QED BY <1>2, <2>1
<1>6. ASSUME NEW m \in OperandNames(c), NEW i \in 1..size[m]
      PROVE  /\ Child(q, m, i) \in DOMAIN unit \ {<<>>}
             /\ Parent(Child(q, m, i)) = q /\ Member(Child(q, m, i)) = m
             /\ Child(q, m, i)[Len(q) + 1] = <<m, i>>
  BY ChildOfTree
<1> HIDE DEF size
<1>7. ASSUME NEW k \in DOMAIN members
      PROVE  /\ rows[k] \in Seq(Children(q)) /\ IsInjective(rows[k])
             /\ \A x : Has(rows[k], x) <=> x \in Children(q) /\ Member(x) = members[k]
  <2> DEFINE m == members[k]
             row1 == [i \in 1..size[m] |-> Child(q, m, i)]
  <2>1. rows[k] = row1
    OBVIOUS
  <2>2. m \in names /\ m \in OperandNames(c) /\ size[m] \in Nat
    BY <1>5
  <2> HIDE DEF m
  <2>3. ASSUME NEW i \in 1..size[m]
        PROVE  Child(q, m, i) \in Children(q) /\ Member(Child(q, m, i)) = m
    BY <1>6, <2>2 DEF Children, GoesThrough
  <2>4. row1 \in Seq(Children(q))
    BY <2>2, <2>3
  <2>5. IsInjective(row1)
    <3> SUFFICES ASSUME NEW i \in 1..size[m], NEW j \in 1..size[m],
                        Child(q, m, i) = Child(q, m, j)
                 PROVE  i = j
      BY DEF IsInjective
    <3>1. <<m, i>> = <<m, j>>
      BY <1>6, <2>2
    <3> QED BY <3>1
  <2>6. ASSUME NEW x, Has(row1, x) PROVE x \in Children(q) /\ Member(x) = m
    BY <2>3, <2>6 DEF Has
  <2>7. ASSUME NEW x, x \in Children(q), Member(x) = m PROVE Has(row1, x)
    <3>1. x \in DOMAIN unit /\ x # <<>> /\ Parent(x) = q
      BY <2>7 DEF Children
    <3>2. PICK i \in 1..unit[q].size[m] : x = Child(q, m, i)
      BY <2>7, <3>1, ParentInTree
    <3>3. i \in 1..size[m]
      BY <3>2 DEF size
    <3> QED BY <3>2, <3>3 DEF Has
  <2> HIDE DEF row1
  <2>8. /\ row1 \in Seq(Children(q)) /\ IsInjective(row1)
        /\ \A x : Has(row1, x) <=> x \in Children(q) /\ Member(x) = m
    BY <2>4, <2>5, <2>6, <2>7
  <2> QED BY <2>1, <2>8 DEF m
<1>8. DOMAIN rows = DOMAIN members
  OBVIOUS
<1> HIDE DEF rows, names
<1>9. rows \in Seq(Seq(Children(q)))
  <2>1. rows = [k \in 1..Len(members) |-> rows[k]]
    BY <1>4 DEF rows
  <2> QED BY <1>4, <1>7, <2>1
<1>10. \A k, l \in DOMAIN rows : \A x : Has(rows[k], x) /\ Has(rows[l], x) => k = l
  <2> SUFFICES ASSUME NEW k \in DOMAIN members, NEW l \in DOMAIN members, NEW x,
                      Has(rows[k], x), Has(rows[l], x)
               PROVE  k = l
    BY <1>8
  <2>1. members[k] = Member(x) /\ members[l] = Member(x)
    BY <1>7
  <2> QED BY <1>4, <2>1 DEF IsInjective
<1>11. /\ FlattenSeq(rows) \in Seq(Children(q)) /\ IsInjective(FlattenSeq(rows))
       /\ \A x : Has(FlattenSeq(rows), x) <=> \E k \in DOMAIN rows : Has(rows[k], x)
  BY <1>7, <1>8, <1>9, <1>10, Flattened
<1>12. ASSUME NEW x \in Children(q) PROVE \E k \in DOMAIN rows : Has(rows[k], x)
  <2>1. x \in DOMAIN unit /\ x # <<>> /\ Parent(x) = q /\ GoesThrough(q, x)
    BY DEF Children
  <2>2. Member(x) \in OperandNames(c)
    BY <2>1, ParentInTree
  <2>3. Member(x) \in names
    BY <2>1, <2>2 DEF GoesThrough, names
  <2>4. PICK k \in DOMAIN members : members[k] = Member(x)
    BY <1>4, <2>3 DEF Has
  <2> QED BY <1>7, <1>8, <2>4
<1>13. ASSUME NEW x, Has(FlattenSeq(rows), x) PROVE x \in Children(q)
  BY <1>7, <1>8, <1>11, <1>13
<1>14. \A x : Has(FlattenSeq(rows), x) <=> x \in Children(q)
  BY <1>11, <1>12, <1>13
<1> QED BY <1>1, <1>11, <1>14 DEF Row

(* A handler accepts these children, and those of elements by value.       *)
LEMMA AcceptedAre ==
    ASSUME IsTree(unit), NEW q \in DOMAIN unit
    PROVE  Row(Accepted(q), Entered(q))
<1> DEFINE children == Visited(q)
           rows == [k \in DOMAIN children |->
                       IF unit[children[k]].class \in Inline THEN Visited(children[k])
                                                             ELSE <<children[k]>>]
<1>1. Accepted(q) = FlattenSeq(rows)
  BY DEF Accepted
<1>2. Row(children, Children(q))
  BY VisitedAre
<1> HIDE DEF children
<1>3. /\ children \in Seq(Children(q)) /\ IsInjective(children)
      /\ \A x : Has(children, x) <=> x \in Children(q)
      /\ DOMAIN children = 1..Len(children) /\ Len(children) \in Nat
  BY <1>2, LenProperties DEF Row
<1>4. ASSUME NEW k \in DOMAIN children
      PROVE  /\ children[k] \in Children(q) /\ children[k] \in DOMAIN unit \ {<<>>}
             /\ Parent(children[k]) = q
  <2>1. children[k] \in Children(q)
    BY <1>3 DEF Has
  <2> QED BY <2>1 DEF Children
<1> DEFINE Part(x) == IF unit[x].class \in Inline THEN Children(x) ELSE {x}
<1>5. ASSUME NEW k \in DOMAIN children
      PROVE  Row(rows[k], Part(children[k]))
  <2>1. CASE unit[children[k]].class \in Inline
    <3>1. Row(Visited(children[k]), Children(children[k]))
      BY <1>4, VisitedAre
    <3> QED BY <2>1, <3>1
  <2>2. CASE unit[children[k]].class \notin Inline
    <3>1. Row(<<children[k]>>, {children[k]})
      BY Row1
    <3> QED BY <2>2, <3>1
  <2> QED BY <2>1, <2>2
<1>6. ASSUME NEW k \in DOMAIN children, NEW x \in Part(children[k])
      PROVE  x \in Entered(q)
  BY <1>4, <1>6 DEF Children, Entered
<1>7. DOMAIN rows = DOMAIN children
  OBVIOUS
<1>8. ASSUME NEW k \in DOMAIN children, NEW l \in DOMAIN children, NEW x,
             x \in Part(children[k]), x \in Part(children[l])
      PROVE  k = l
  <2>1. \A m \in DOMAIN children : children[m] # q
    <3> SUFFICES ASSUME NEW m \in DOMAIN children, children[m] = q PROVE FALSE
      OBVIOUS
    <3>1. Len(Parent(q)) = Len(q) - 1 /\ Len(q) \in Nat /\ Parent(q) = q
      BY <1>4, ParentInTree
    <3> QED BY <3>1
  <2>2. children[k] = children[l]
    <3>1. \A m \in DOMAIN children : x \in Part(children[m])
             => \/ unit[children[m]].class \in Inline /\ Parent(x) = children[m]
                \/ unit[children[m]].class \notin Inline /\ x = children[m]
      BY DEF Children
    <3> QED BY <1>4, <1>8, <2>1, <3>1
  <2> QED BY <1>3, <2>2 DEF IsInjective
<1> HIDE DEF Part, rows
<1>9. rows \in Seq(Seq(Entered(q)))
  <2>1. rows = [k \in 1..Len(children) |-> rows[k]]
    BY <1>3 DEF rows
  <2>2. ASSUME NEW k \in DOMAIN children PROVE rows[k] \in Seq(Entered(q))
    <3>1. rows[k] \in Seq(Part(children[k])) /\ Part(children[k]) \subseteq Entered(q)
      BY <1>5, <1>6 DEF Row
    <3> QED BY <3>1, SeqMonotonic
  <2> QED BY <1>3, <2>1, <2>2
<1>10. \A k, l \in DOMAIN rows : \A x : Has(rows[k], x) /\ Has(rows[l], x) => k = l
  BY <1>5, <1>7, <1>8 DEF Row
<1>11. \A k \in DOMAIN rows : IsInjective(rows[k])
  BY <1>5, <1>7 DEF Row
<1>12. /\ FlattenSeq(rows) \in Seq(Entered(q)) /\ IsInjective(FlattenSeq(rows))
       /\ \A x : Has(FlattenSeq(rows), x) <=> \E k \in DOMAIN rows : Has(rows[k], x)
  BY <1>9, <1>10, <1>11, Flattened
<1>13. ASSUME NEW x \in Entered(q) PROVE \E k \in DOMAIN rows : Has(rows[k], x)
  <2>1. CASE x \in Children(q) /\ unit[x].class \notin Inline
    <3>1. PICK k \in DOMAIN children : children[k] = x
      BY <1>3, <2>1 DEF Has
    <3>2. x \in Part(children[k])
      BY <2>1, <3>1 DEF Part
    <3> QED BY <1>5, <1>7, <3>2 DEF Row
  <2>2. CASE x \in DOMAIN unit \ {<<>>} /\ Parent(x) \in Children(q)
             /\ unit[Parent(x)].class \in Inline /\ GoesThrough(Parent(x), x)
    <3>1. PICK k \in DOMAIN children : children[k] = Parent(x)
      BY <1>3, <2>2 DEF Has
    <3>2. x \in Part(children[k])
      BY <2>2, <3>1 DEF Part, Children
    <3> QED BY <1>5, <1>7, <3>2 DEF Row
  <2> QED BY <2>1, <2>2 DEF Entered
<1>14. ASSUME NEW x, Has(FlattenSeq(rows), x) PROVE x \in Entered(q)
  <2>1. PICK k \in DOMAIN rows : Has(rows[k], x)
    BY <1>12, <1>14
  <2> QED BY <1>5, <1>6, <1>7, <2>1 DEF Row
<1>15. \A x : Has(FlattenSeq(rows), x) <=> x \in Entered(q)
  BY <1>12, <1>13, <1>14
<1> QED BY <1>1, <1>12, <1>15 DEF Row

-----------------------------------------------------------------------------
(* The nodes that are accepted next are the topmost ones under a node.     *)
Counted == Promise!Nodes(unit)
DepthOf(p) == Promise!Depth(unit, p)

(* A tree has finitely many nodes that count.                              *)
LEMMA CountedAre ==
    ASSUME IsTree(unit)
    PROVE  /\ Counted = {p \in DOMAIN unit \ {<<>>} : unit[p].class \notin Inline /\ Seen(unit, p)}
           /\ IsFiniteSet(Counted)
<1>1. Counted = {p \in DOMAIN unit \ {<<>>} : unit[p].class \notin Inline /\ Seen(unit, p)}
  BY NodesAre DEF Counted
<1>2. IsFiniteSet(DOMAIN unit) /\ Counted \in SUBSET DOMAIN unit
  BY <1>1 DEF IsTree
<1> QED BY <1>1, <1>2, FS_Subset

(* A node below a node that counts is a child, or stands in an element.    *)
LEMMA ChildCounted ==
    ASSUME IsTree(unit), NEW q \in DOMAIN unit, Seen(unit, q), NEW p \in Children(q)
    PROVE  /\ p \in DOMAIN unit /\ p # <<>> /\ Parent(p) = q /\ Seen(unit, p)
           /\ Under(q, p) /\ Len(p) = Len(q) + 1 /\ Len(q) \in Nat
           /\ DepthOf(p) = IF unit[p].class \in Inline THEN DepthOf(q) ELSE DepthOf(q) + 1
<1>1. p \in DOMAIN unit /\ p # <<>> /\ Parent(p) = q /\ GoesThrough(q, p)
  BY DEF Children
<1>2. <<unit[q].class, Member(p)>> \notin Promise!NotCounted
  BY <1>1 DEF GoesThrough
<1>3. Seen(unit, p)
  BY <1>1, <1>2, SeenChild
<1>4. Len(p) \in Nat /\ Len(q) = Len(p) - 1 /\ Under(q, p) /\ Len(p) >= 1
  BY <1>1, ParentInTree
<1>5. DepthOf(p) = IF unit[p].class \in Inline THEN DepthOf(q) ELSE DepthOf(q) + 1
  BY <1>1, DepthChild DEF DepthOf
<1> QED BY <1>1, <1>3, <1>4, <1>5

(* What is accepted next counts, and is one level below.                   *)
LEMMA EnteredCounted ==
    ASSUME IsTree(unit), NEW q \in Counted \cup {<<>>}, NEW p \in Entered(q)
    PROVE  /\ p \in Counted /\ Under(q, p) /\ p # q /\ DepthOf(p) = DepthOf(q) + 1
           /\ \/ p \in Children(q)
              \/ /\ Parent(p) \in Children(q) /\ unit[Parent(p)].class \in Inline
                 /\ p \in Children(Parent(p))
<1>1. q \in DOMAIN unit /\ Seen(unit, q)
  BY CountedAre, DepthOfRoot DEF IsTree
<1>2. CASE p \in Children(q) /\ unit[p].class \notin Inline
  <2>1. /\ p \in DOMAIN unit /\ p # <<>> /\ Seen(unit, p) /\ Under(q, p)
        /\ Len(p) = Len(q) + 1 /\ Len(q) \in Nat /\ DepthOf(p) = DepthOf(q) + 1
    BY <1>1, <1>2, ChildCounted
  <2> QED BY <1>2, <2>1, CountedAre
<1>3. CASE /\ p \in DOMAIN unit \ {<<>>} /\ Parent(p) \in Children(q)
           /\ unit[Parent(p)].class \in Inline /\ GoesThrough(Parent(p), p)
  <2> DEFINE r == Parent(p)
  <2>1. /\ r \in DOMAIN unit /\ r # <<>> /\ Seen(unit, r) /\ Under(q, r)
        /\ Len(r) = Len(q) + 1 /\ Len(q) \in Nat /\ DepthOf(r) = DepthOf(q)
    BY <1>1, <1>3, ChildCounted
  <2>2. p \in Children(r)
    BY <1>3 DEF Children
  <2>3. unit[p].class \notin Inline
    <3>1. PICK f \in Operands(unit[r].class) : unit[p].class \in f.of
      BY <1>3, ParentInTree
    <3> QED BY <1>3, <3>1, InlineOperands
  <2>4. /\ p \in DOMAIN unit /\ p # <<>> /\ Seen(unit, p) /\ Under(r, p)
        /\ Len(p) = Len(r) + 1 /\ DepthOf(p) = DepthOf(r) + 1
    BY <2>1, <2>2, <2>3, ChildCounted
  <2>5. Under(q, p)
    <3>1. p \in Seq(Steps) /\ r \in Seq(Steps) /\ q \in Seq(Steps)
      BY <1>1, <2>1, <2>4, PathsOfTree
    <3> QED BY <2>1, <2>4, <3>1, UnderUnder
  <2> QED BY <1>3, <2>1, <2>2, <2>3, <2>4, <2>5, CountedAre
<1> QED BY <1>2, <1>3 DEF Entered

(* None of what is accepted next is under another.                         *)
LEMMA EnteredApart ==
    ASSUME IsTree(unit), NEW q \in Counted \cup {<<>>}, NEW r \in Entered(q), NEW s \in Entered(q),
           Under(r, s)
    PROVE  r = s
<1>1. q \in DOMAIN unit /\ Seen(unit, q) /\ r \in DOMAIN unit /\ s \in DOMAIN unit
      /\ unit[r].class \notin Inline /\ unit[s].class \notin Inline
  <2>1. q \in DOMAIN unit /\ Seen(unit, q)
    BY CountedAre, DepthOfRoot DEF IsTree
  <2>2. r \in Counted /\ s \in Counted
    BY EnteredCounted
  <2> QED BY <2>1, <2>2, CountedAre
<1>2. r \in Seq(Steps) /\ s \in Seq(Steps)
  BY <1>1, PathsOfTree
<1>3. Len(r) <= Len(s)
  BY DEF Under
<1>4. ASSUME NEW p \in Entered(q)
      PROVE  \/ p \in Children(q) /\ Len(p) = Len(q) + 1 /\ Len(q) \in Nat
             \/ /\ Parent(p) \in Children(q) /\ unit[Parent(p)].class \in Inline
                /\ Len(Parent(p)) = Len(q) + 1 /\ Len(p) = Len(q) + 2 /\ Len(q) \in Nat
                /\ Under(Parent(p), p) /\ Parent(p) \in DOMAIN unit
  <2>1. CASE p \in Children(q)
    BY <1>1, <2>1, ChildCounted
  <2>2. CASE Parent(p) \in Children(q) /\ unit[Parent(p)].class \in Inline /\ p \in Children(Parent(p))
    <3>1. /\ Parent(p) \in DOMAIN unit /\ Seen(unit, Parent(p))
          /\ Len(Parent(p)) = Len(q) + 1 /\ Len(q) \in Nat
      BY <1>1, <2>2, ChildCounted
    <3>2. Len(p) = Len(Parent(p)) + 1 /\ Under(Parent(p), p)
      BY <2>2, <3>1, ChildCounted
    <3> QED BY <2>2, <3>1, <3>2
  <2> QED BY <2>1, <2>2, EnteredCounted
<1>5. CASE Len(s) <= Len(r)
  BY <1>2, <1>5, UnderSame
<1>6. CASE Len(r) < Len(s)
  <2>1. /\ r \in Children(q) /\ Len(r) = Len(q) + 1
        /\ unit[Parent(s)].class \in Inline /\ Len(Parent(s)) = Len(q) + 1 /\ Len(q) \in Nat
        /\ Under(Parent(s), s) /\ Parent(s) \in DOMAIN unit
    BY <1>4, <1>6
  <2>2. Parent(s) \in Seq(Steps)
    BY <2>1, PathsOfTree
  <2>3. Under(r, Parent(s))
    BY <1>2, <2>1, <2>2, UnderBoth
  <2>4. r = Parent(s)
    BY <1>2, <2>1, <2>2, <2>3, UnderSame
  <2> QED BY <1>1, <2>1, <2>4
<1>7. Len(r) \in Nat /\ Len(s) \in Nat
  BY <1>2, LenProperties
<1> QED BY <1>3, <1>5, <1>6, <1>7

(* The node below a node on the way to another one.                        *)
LEMMA ChildAbove ==
    ASSUME IsTree(unit), NEW q \in DOMAIN unit, NEW p \in DOMAIN unit, Seen(unit, p),
           Under(q, p), q # p, unit[p].class \notin Inline
    PROVE  \E r \in Children(q) : Under(r, p)
<1>1. p \in Seq(Steps) /\ q \in Seq(Steps) /\ Len(p) \in Nat /\ Len(q) \in Nat
  BY PathsOfTree, LenProperties
<1>2. Len(q) < Len(p)
  <2>1. ~(Len(p) <= Len(q))
    BY <1>1, UnderSame
  <2> QED BY <1>1, <2>1
<1> DEFINE r == SubSeq(p, 1, Len(q) + 1)
<1>3. Len(q) + 1 \in 0..Len(p) /\ Len(q) \in 0..(Len(q) + 1) /\ (Len(q) + 1) - 1 = Len(q)
  BY <1>1, <1>2
<1>4. r \in DOMAIN unit /\ r \in Seq(Steps) /\ Len(r) = Len(q) + 1
  BY <1>1, <1>3, PathsOfTree, Prefix
<1>5. Parent(r) = q
  <2>1. SubSeq(r, 1, Len(q)) = SubSeq(p, 1, Len(q))
    BY <1>1, <1>3, PrefixOfPrefix
  <2>2. SubSeq(p, 1, Len(q)) = q
    BY DEF Under
  <2> HIDE DEF r
  <2> QED BY <1>3, <1>4, <2>1, <2>2 DEF Parent
<1>6. Under(r, p)
  <2>1. SubSeq(p, 1, Len(r)) = r /\ Len(r) <= Len(p)
    BY <1>3, <1>4
  <2> HIDE DEF r
  <2> QED BY <2>1 DEF Under
<1> HIDE DEF r
<1>7. r # <<>>
  <2>1. Len(<<>>) = 0
    OBVIOUS
  <2> QED BY <1>1, <1>4, <2>1
<1>8. Seen(unit, r)
  BY <1>4, <1>6, SeenAbove
<1>9. <<unit[q].class, Member(r)>> \notin Promise!NotCounted
  BY <1>4, <1>5, <1>7, <1>8, SeenChild
<1>10. <<unit[q].class, Member(r)>> \notin Barren
  <2> SUFFICES ASSUME <<unit[q].class, Member(r)>> \in Barren PROVE FALSE
    OBVIOUS
  <2>1. PICK f \in Operands(unit[q].class) : f.name = Member(r) /\ unit[r].class \in f.of
    BY <1>4, <1>5, <1>7, ParentInTree
  <2>2. unit[q].class \in DOMAIN Class
    BY DEF IsTree, IsNode
  <2>3. unit[r].class = "privilege_action"
    BY <2>1, <2>2, BarrenOperands
  <2>4. unit[r].class \in Inline
    BY <2>3 DEF Inline
  <2>5. r # p
    BY <2>4
  <2>6. ~(Len(p) <= Len(r))
    BY <1>1, <1>4, <1>6, <2>5, UnderSame
  <2> DEFINE s == SubSeq(p, 1, Len(r) + 1)
  <2>7. Len(r) + 1 \in 0..Len(p) /\ Len(r) \in 0..(Len(r) + 1) /\ (Len(r) + 1) - 1 = Len(r)
    BY <1>1, <1>4, <2>6
  <2>8. s \in DOMAIN unit /\ s \in Seq(Steps) /\ Len(s) = Len(r) + 1
    BY <1>1, <2>7, PathsOfTree, Prefix
  <2>9. Parent(s) = r
    <3>1. SubSeq(s, 1, Len(r)) = SubSeq(p, 1, Len(r))
      BY <1>1, <2>7, PrefixOfPrefix
    <3>2. SubSeq(p, 1, Len(r)) = r
      BY <1>6 DEF Under
    <3> HIDE DEF s
    <3> QED BY <2>7, <2>8, <3>1, <3>2 DEF Parent
  <2> HIDE DEF s
  <2>10. s # <<>>
    <3>1. Len(<<>>) = 0
      OBVIOUS
    <3> QED BY <1>1, <1>4, <2>8, <3>1
  <2>11. PICK g \in Operands(unit[r].class) : TRUE
    BY <2>8, <2>9, <2>10, ParentInTree
  <2> QED BY <2>3, <2>4, <2>11, InlineOperands
<1> QED BY <1>4, <1>5, <1>6, <1>7, <1>9, <1>10 DEF Children, GoesThrough

(* All that counts under a node is under what is accepted next.            *)
LEMMA EnteredAbove ==
    ASSUME IsTree(unit), NEW q \in Counted \cup {<<>>}, NEW p \in Counted, Under(q, p), p # q
    PROVE  \E r \in Entered(q) : Under(r, p)
<1>1. /\ q \in DOMAIN unit /\ Seen(unit, q)
      /\ p \in DOMAIN unit /\ Seen(unit, p) /\ unit[p].class \notin Inline
  BY CountedAre, DepthOfRoot DEF IsTree
<1>2. PICK r \in Children(q) : Under(r, p)
  BY <1>1, ChildAbove
<1>3. CASE unit[r].class \notin Inline
  BY <1>2, <1>3 DEF Entered
<1>4. CASE unit[r].class \in Inline
  <2>1. r \in DOMAIN unit /\ r # p
    BY <1>1, <1>4, ChildCounted
  <2>2. PICK s \in Children(r) : Under(s, p)
    BY <1>1, <1>2, <2>1, ChildAbove
  <2>3. s \in DOMAIN unit \ {<<>>} /\ Parent(s) = r /\ GoesThrough(r, s)
    BY <2>2 DEF Children
  <2> QED BY <1>2, <1>4, <2>2, <2>3 DEF Entered
<1> QED BY <1>3, <1>4

-----------------------------------------------------------------------------
(* The depth of a tree is the largest of its nodes.                        *)
LEMMA TreeDepthIs ==
    ASSUME IsTree(unit)
    PROVE  /\ Promise!TreeDepth(unit) \in Nat
           /\ \A p \in Counted : DepthOf(p) \in Nat /\ DepthOf(p) <= Promise!TreeDepth(unit)
           /\ Promise!TreeDepth(unit) = 0 \/ \E p \in Counted : DepthOf(p) = Promise!TreeDepth(unit)
<1> DEFINE depths == {DepthOf(p) : p \in Counted}
           f == [p \in Counted |-> DepthOf(p)]
<1>1. IsFiniteSet(Counted) /\ \A p \in Counted : p \in DOMAIN unit
  BY CountedAre
<1>2. \A p \in Counted : DepthOf(p) \in Nat
  BY <1>1, LevelsFinite DEF DepthOf
<1>3. f \in Surjection(Counted, depths)
  BY DEF Surjection
<1>4. IsFiniteSet(depths)
  BY <1>1, <1>3, FS_Surjection
<1>5. IsFiniteSet(depths \cup {0}) /\ depths \cup {0} \subseteq Nat /\ depths \cup {0} # {}
  BY <1>2, <1>4, FS_AddElement
<1>6. Max(depths \cup {0}) \in depths \cup {0} /\ \A n \in depths \cup {0} : Max(depths \cup {0}) >= n
  <2> DEFINE values == depths \cup {0}
  <2>1. IsFiniteSet(values) /\ values \subseteq Nat /\ values # {}
    BY <1>5
  <2> HIDE DEF values
  <2>2. Max(values) \in values /\ \A n \in values : Max(values) >= n
    BY <2>1, Maximum
  <2> QED BY <2>2 DEF values
<1>7. Promise!TreeDepth(unit) = Max(depths \cup {0})
  <2>1. {Promise!Depth(unit, path) : path \in Promise!Nodes(unit)} = depths
    BY DEF Counted, DepthOf
  <2> QED BY <2>1, PromiseTerms DEF Promise!TreeDepth
<1> DEFINE top == Promise!TreeDepth(unit)
<1> HIDE DEF top
<1>8. top \in depths \cup {0} /\ \A n \in depths \cup {0} : top >= n
  BY <1>6, <1>7 DEF top
<1>9. top \in Nat
  BY <1>5, <1>8
<1>10. ASSUME NEW p \in Counted PROVE DepthOf(p) <= top
  BY <1>2, <1>8, <1>9
<1>11. top = 0 \/ \E p \in Counted : DepthOf(p) = top
  BY <1>8
<1> QED BY <1>2, <1>9, <1>10, <1>11 DEF top

-----------------------------------------------------------------------------
(* The walk.  What is still to be accepted covers the nodes that have not  *)
(* been counted, each once; the counts are those of the others.            *)
Awaited(tree, rest) ==
    {p \in Promise!Nodes(tree) : \E k \in DOMAIN rest : Under(rest[k].path, p)}

Sound(tree, rest, count, deep) ==
    /\ rest \in Seq([path : Promise!Nodes(tree), depth : Nat])
    /\ \A k \in DOMAIN rest : rest[k].depth = Promise!Depth(tree, rest[k].path)
    /\ \A j, k \in DOMAIN rest : Under(rest[j].path, rest[k].path) => j = k
    /\ count = Cardinality(Promise!Nodes(tree) \ Awaited(tree, rest))
    /\ deep \in Nat
    /\ \A p \in Promise!Nodes(tree) \ Awaited(tree, rest) : Promise!Depth(tree, p) <= deep
    /\ deep = 0 \/ \E p \in Promise!Nodes(tree) \ Awaited(tree, rest) : Promise!Depth(tree, p) = deep

(* The nodes of a handler, as they are put on the stack.                   *)
LEMMA AtAccepted ==
    ASSUME IsTree(unit), NEW q \in Counted \cup {<<>>}
    PROVE  LET ahead == At(Accepted(q), DepthOf(q) + 1) IN
           /\ ahead \in Seq([path : Counted, depth : Nat])
           /\ \A k \in DOMAIN ahead : /\ ahead[k].path \in Entered(q) /\ ahead[k].path \in Counted
                                      /\ ahead[k].depth = DepthOf(ahead[k].path)
           /\ \A p \in Entered(q) : \E k \in DOMAIN ahead : ahead[k].path = p
           /\ \A j, k \in DOMAIN ahead : Under(ahead[j].path, ahead[k].path) => j = k
<1> DEFINE paths == Accepted(q)
           ahead == At(paths, DepthOf(q) + 1)
<1>1. q \in DOMAIN unit /\ DepthOf(q) \in Nat
  BY CountedAre, LevelsFinite DEF IsTree, DepthOf
<1>2. Row(paths, Entered(q))
  BY <1>1, AcceptedAre
<1>3. /\ paths \in Seq(Entered(q)) /\ IsInjective(paths)
      /\ \A x : Has(paths, x) <=> x \in Entered(q)
      /\ DOMAIN paths = 1..Len(paths) /\ Len(paths) \in Nat
  BY <1>2, LenProperties DEF Row
<1> HIDE DEF paths
<1>4. DOMAIN ahead = DOMAIN paths
      /\ \A k \in DOMAIN paths : ahead[k] = [path |-> paths[k], depth |-> DepthOf(q) + 1]
  BY DEF At
<1>5. ASSUME NEW k \in DOMAIN paths
      PROVE  /\ paths[k] \in Entered(q) /\ paths[k] \in Counted
             /\ DepthOf(paths[k]) = DepthOf(q) + 1
  <2>1. paths[k] \in Entered(q)
    BY <1>3 DEF Has
  <2> QED BY <2>1, EnteredCounted
<1>6. ahead \in Seq([path : Counted, depth : Nat])
  <2>1. ahead = [k \in 1..Len(paths) |-> ahead[k]]
    BY <1>3 DEF At
  <2>2. \A k \in 1..Len(paths) : ahead[k] \in [path : Counted, depth : Nat]
    <3> SUFFICES ASSUME NEW k \in DOMAIN paths PROVE ahead[k] \in [path : Counted, depth : Nat]
      BY <1>3
    <3>1. ahead[k] = [path |-> paths[k], depth |-> DepthOf(q) + 1]
      BY <1>4
    <3>2. paths[k] \in Counted /\ DepthOf(q) + 1 \in Nat
      BY <1>1, <1>5
    <3> HIDE DEF ahead
    <3> QED BY <3>1, <3>2
  <2> HIDE DEF ahead
  <2> QED BY <1>3, <2>1, <2>2
<1> HIDE DEF ahead
<1>7. ASSUME NEW k \in DOMAIN ahead
      PROVE  /\ ahead[k].path \in Entered(q) /\ ahead[k].path \in Counted
             /\ ahead[k].depth = DepthOf(ahead[k].path)
  BY <1>4, <1>5
<1>8. ASSUME NEW p \in Entered(q) PROVE \E k \in DOMAIN ahead : ahead[k].path = p
  <2>1. PICK k \in DOMAIN paths : paths[k] = p
    BY <1>3 DEF Has
  <2> QED BY <1>4, <2>1
<1>9. ASSUME NEW j \in DOMAIN ahead, NEW k \in DOMAIN ahead, Under(ahead[j].path, ahead[k].path)
      PROVE  j = k
  <2>1. ahead[j].path = ahead[k].path
    BY <1>7, <1>9, EnteredApart
  <2>2. paths[j] = paths[k]
    BY <1>4, <2>1
  <2> QED BY <1>3, <1>4, <2>2 DEF IsInjective
<1> QED BY <1>6, <1>7, <1>8, <1>9 DEF ahead, paths

(* process(): all nodes are still to be accepted.                          *)
LEMMA ProcessSound ==
    ASSUME IsTree(unit)
    PROVE  Sound(unit, At(Accepted(<<>>), 1), 0, 0)
<1> DEFINE ahead == At(Accepted(<<>>), 1)
           q == <<>>
<1> HIDE DEF q
<1>1. q \in Counted \cup {<<>>} /\ DepthOf(q) + 1 = 1
  BY DepthOfRoot DEF q, DepthOf
<1>2. /\ ahead \in Seq([path : Counted, depth : Nat])
      /\ \A k \in DOMAIN ahead : ahead[k].depth = DepthOf(ahead[k].path)
      /\ \A p \in Entered(q) : \E k \in DOMAIN ahead : ahead[k].path = p
      /\ \A j, k \in DOMAIN ahead : Under(ahead[j].path, ahead[k].path) => j = k
  <2>1. ahead = At(Accepted(q), DepthOf(q) + 1)
    BY <1>1 DEF q
  <2> HIDE DEF ahead
  <2> QED BY <1>1, <2>1, AtAccepted
<1> HIDE DEF ahead
<1>3. ASSUME NEW p \in Counted PROVE p \in Awaited(unit, ahead)
  <2>1. p # q /\ p \in Seq(Steps)
    BY CountedAre, PathsOfTree DEF q
  <2>2. Under(q, p)
    <3>1. Len(<<>>) = 0 /\ Len(p) \in Nat
      BY <2>1, LenProperties
    <3>2. SubSeq(p, 1, 0) = <<>>
      BY <2>1, SubSeqEmpty
    <3> QED BY <3>1, <3>2 DEF Under, q
  <2>3. PICK r \in Entered(q) : Under(r, p)
    BY <1>1, <2>1, <2>2, EnteredAbove
  <2>4. PICK k \in DOMAIN ahead : ahead[k].path = r
    BY <1>2
  <2> QED BY <2>3, <2>4 DEF Awaited, Counted
<1>4. Promise!Nodes(unit) \ Awaited(unit, ahead) = {}
  BY <1>3 DEF Counted
<1>5. Cardinality({}) = 0
  BY FS_EmptySet
<1>6. Sound(unit, ahead, 0, 0)
  BY <1>2, <1>4, <1>5 DEF Sound, Counted, DepthOf
<1> QED BY <1>6 DEF ahead

(* accept(): the node leaves what is awaited, and its children stay in it. *)
LEMMA AcceptSound ==
    ASSUME IsTree(unit), Sound(unit, todo, nodeCount, maxDepth), todo # <<>>
    PROVE  LET node == Head(todo) IN
           /\ Sound(unit, At(Accepted(node.path), node.depth + 1) \o Tail(todo), nodeCount + 1,
                    IF node.depth > maxDepth THEN node.depth ELSE maxDepth)
           /\ nodeCount + 1 <= Cardinality(Counted) /\ node.depth <= Promise!TreeDepth(unit)
           /\ nodeCount \in Nat /\ node.depth \in Nat /\ maxDepth \in Nat
<1> DEFINE T == [path : Counted, depth : Nat]
           node == Head(todo)
           q == node.path
           ahead == At(Accepted(q), node.depth + 1)
           rest == Tail(todo)
           next == ahead \o rest
           top == IF node.depth > maxDepth THEN node.depth ELSE maxDepth
           Done == Counted \ Awaited(unit, todo)
<1>1. /\ todo \in Seq(T)
      /\ \A k \in DOMAIN todo : todo[k].depth = DepthOf(todo[k].path)
      /\ \A j, k \in DOMAIN todo : Under(todo[j].path, todo[k].path) => j = k
      /\ nodeCount = Cardinality(Done) /\ maxDepth \in Nat
      /\ \A p \in Done : DepthOf(p) <= maxDepth
      /\ maxDepth = 0 \/ \E p \in Done : DepthOf(p) = maxDepth
  BY DEF Sound, Counted, DepthOf
<1>2. /\ Len(todo) \in Nat /\ Len(todo) >= 1 /\ DOMAIN todo = 1..Len(todo)
      /\ node = todo[1] /\ 1 \in DOMAIN todo /\ node \in T
      /\ rest \in Seq(T) /\ Len(rest) = Len(todo) - 1
      /\ \A i \in 1..Len(rest) : rest[i] = todo[i + 1]
  <2>1. Len(todo) \in Nat /\ Len(todo) >= 1 /\ DOMAIN todo = 1..Len(todo)
    BY <1>1, LenProperties, EmptySeq
  <2>2. 1 \in DOMAIN todo /\ todo[1] \in T
    <3>1. 1 \in 1..Len(todo)
      BY <2>1
    <3> HIDE DEF T
    <3>2. todo[1] \in T
      BY <1>1, <3>1, ElementOfSeq
    <3> QED BY <2>1, <3>1, <3>2
  <2> QED BY <1>1, <2>1, <2>2, HeadTailProperties
<1>3. q \in Counted /\ q \in Counted \cup {<<>>} /\ node.depth = DepthOf(q) /\ node.depth \in Nat
  BY <1>1, <1>2
<1>4. /\ ahead \in Seq(T)
      /\ \A k \in DOMAIN ahead : /\ ahead[k].path \in Entered(q) /\ ahead[k].path \in Counted
                                 /\ ahead[k].depth = DepthOf(ahead[k].path)
      /\ \A p \in Entered(q) : \E k \in DOMAIN ahead : ahead[k].path = p
      /\ \A j, k \in DOMAIN ahead : Under(ahead[j].path, ahead[k].path) => j = k
  <2>1. ahead = At(Accepted(q), DepthOf(q) + 1)
    BY <1>3
  <2> HIDE DEF ahead, q
  <2> QED BY <1>3, <2>1, AtAccepted
<1> HIDE DEF ahead, q, node, rest, T
<1>5. /\ next \in Seq(T) /\ DOMAIN next = 1..(Len(ahead) + Len(rest))
      /\ Len(ahead) \in Nat /\ Len(rest) \in Nat
      /\ DOMAIN ahead = 1..Len(ahead) /\ DOMAIN rest = 1..Len(rest)
      /\ \A i \in 1..Len(ahead) + Len(rest) :
            next[i] = IF i <= Len(ahead) THEN ahead[i] ELSE rest[i - Len(ahead)]
  <2>1. next \in Seq(T) /\ Len(next) = Len(ahead) + Len(rest)
        /\ \A i \in 1..Len(ahead) + Len(rest) :
              next[i] = IF i <= Len(ahead) THEN ahead[i] ELSE rest[i - Len(ahead)]
    <3>1. ahead \in Seq(T) /\ rest \in Seq(T)
      BY <1>2, <1>4
    <3> QED BY ONLY <3>1, ConcatProperties
  <2> HIDE DEF next
  <2> QED BY <1>2, <1>4, <2>1, LenProperties
<1> HIDE DEF next
<1>5a. \A k \in DOMAIN next : next[k].path \in Counted
  <2> SUFFICES ASSUME NEW k \in DOMAIN next PROVE next[k].path \in Counted
    OBVIOUS
  <2>1. next[k] \in T
    BY <1>5, LenProperties, ElementOfSeq
  <2> QED BY <2>1 DEF T
<1>6. ASSUME NEW k \in DOMAIN next
      PROVE  \/ k \in DOMAIN ahead /\ next[k] = ahead[k]
             \/ /\ k > Len(ahead) /\ (k - Len(ahead)) + 1 \in DOMAIN todo
                /\ (k - Len(ahead)) + 1 # 1 /\ next[k] = todo[(k - Len(ahead)) + 1]
  BY <1>2, <1>5
<1>7. ASSUME NEW k \in DOMAIN ahead PROVE k \in DOMAIN next /\ next[k] = ahead[k]
  BY <1>5
<1>8. ASSUME NEW k \in DOMAIN todo, k # 1 PROVE \E j \in DOMAIN next : next[j] = todo[k]
  <2>1. (k - 1) + Len(ahead) \in DOMAIN next /\ ~((k - 1) + Len(ahead) <= Len(ahead))
        /\ ((k - 1) + Len(ahead)) - Len(ahead) = k - 1 /\ k - 1 \in 1..Len(rest) /\ (k - 1) + 1 = k
    BY <1>2, <1>5, <1>8
  <2>2. next[(k - 1) + Len(ahead)] = todo[k]
    BY <1>2, <1>5, <2>1
  <2> QED BY <2>1, <2>2
<1>9. ASSUME NEW p \in Counted PROVE p \in Seq(Steps)
  BY <1>9, CountedAre, PathsOfTree
<1>10. ASSUME NEW r \in Entered(q)
       PROVE  r \in Counted /\ Under(q, r) /\ r # q /\ ~Under(r, q)
  <2>1. r \in Counted /\ Under(q, r) /\ r # q
    BY <1>3, EnteredCounted
  <2>2. ~Under(r, q)
    <3> SUFFICES ASSUME Under(r, q) PROVE FALSE
      OBVIOUS
    <3>1. q \in Seq(Steps) /\ r \in Seq(Steps) /\ Len(q) <= Len(r)
      BY <1>3, <1>9, <2>1 DEF Under
    <3> QED BY <2>1, <3>1, UnderSame
  <2> QED BY <2>1, <2>2
(* What is awaited afterwards is what was before, but for the node.        *)
<1>11. Awaited(unit, next) = Awaited(unit, todo) \ {q}
  <2>1. ASSUME NEW p \in Awaited(unit, next) PROVE p \in Awaited(unit, todo) /\ p # q
    <3>1. p \in Counted
      BY <2>1 DEF Awaited, Counted
    <3>2. PICK k \in DOMAIN next : Under(next[k].path, p)
      BY <2>1 DEF Awaited
    <3>3. CASE k \in DOMAIN ahead /\ next[k] = ahead[k]
      <4>1. ahead[k].path \in Entered(q)
        BY <1>4, <3>3
      <4>2. Under(ahead[k].path, p) /\ Under(q, ahead[k].path) /\ ~Under(ahead[k].path, q)
            /\ ahead[k].path \in Counted
        BY <1>10, <3>2, <3>3, <4>1
      <4>3. Under(q, p)
        <5>1. q \in Seq(Steps) /\ p \in Seq(Steps) /\ ahead[k].path \in Seq(Steps)
          BY <1>3, <1>9, <3>1, <4>2
        <5> QED BY <4>2, <5>1, UnderUnder
      <4> QED BY <1>2, <3>1, <4>2, <4>3 DEF Awaited, Counted, q
    <3>4. CASE \E j \in DOMAIN todo : j # 1 /\ next[k] = todo[j]
      <4>1. PICK j \in DOMAIN todo : j # 1 /\ next[k] = todo[j]
        BY <3>4
      <4>2. p # q
        BY <1>1, <1>2, <3>2, <4>1 DEF q
      <4> QED BY <3>1, <3>2, <4>1, <4>2 DEF Awaited, Counted
    <3> QED BY <1>6, <3>3, <3>4
  <2>2. ASSUME NEW p \in Awaited(unit, todo), p # q PROVE p \in Awaited(unit, next)
    <3>1. p \in Counted
      BY <2>2 DEF Awaited, Counted
    <3>2. PICK k \in DOMAIN todo : Under(todo[k].path, p)
      BY <2>2 DEF Awaited
    <3>3. CASE k # 1
      BY <1>8, <3>1, <3>2, <3>3 DEF Awaited, Counted
    <3>4. CASE k = 1
      <4>1. Under(q, p)
        BY <1>2, <3>2, <3>4 DEF q
      <4>2. PICK r \in Entered(q) : Under(r, p)
        BY <1>3, <2>2, <3>1, <4>1, EnteredAbove
      <4>3. PICK j \in DOMAIN ahead : ahead[j].path = r
        BY <1>4
      <4> QED BY <1>7, <3>1, <4>2, <4>3 DEF Awaited, Counted
    <3> QED BY <3>3, <3>4
  <2> QED BY <2>1, <2>2
<1>12. q \in Awaited(unit, todo)
  <2>1. Under(q, q)
    BY <1>3, <1>9, UnderItself
  <2> QED BY <1>2, <1>3, <2>1 DEF Awaited, Counted, q
<1>13. /\ Counted \ Awaited(unit, next) = Done \cup {q} /\ q \notin Done
       /\ IsFiniteSet(Done) /\ IsFiniteSet(Counted) /\ Done \cup {q} \in SUBSET Counted
  <2>1. IsFiniteSet(Counted) /\ Done \in SUBSET Counted
    BY CountedAre
  <2> QED BY <1>3, <1>11, <1>12, <2>1, FS_Subset
<1>14. /\ Cardinality(Done \cup {q}) = nodeCount + 1
       /\ Cardinality(Done \cup {q}) <= Cardinality(Counted) /\ nodeCount \in Nat
  <2>1. Cardinality(Done \cup {q}) = Cardinality(Done) + 1 /\ Cardinality(Done) \in Nat
    BY <1>13, FS_AddElement, FS_CardinalityType
  <2>2. Cardinality(Done \cup {q}) <= Cardinality(Counted)
    BY <1>13, FS_Subset
  <2> QED BY <1>1, <2>1, <2>2
<1>15. node.depth <= Promise!TreeDepth(unit)
  BY <1>3, TreeDepthIs
<1>16. \A k \in DOMAIN next : next[k].depth = DepthOf(next[k].path)
  BY <1>1, <1>4, <1>6
<1>17. ASSUME NEW j \in DOMAIN next, NEW k \in DOMAIN next, Under(next[j].path, next[k].path)
       PROVE  j = k
  <2> DEFINE Old(i) == i > Len(ahead) /\ (i - Len(ahead)) + 1 \in DOMAIN todo
                       /\ (i - Len(ahead)) + 1 # 1 /\ next[i] = todo[(i - Len(ahead)) + 1]
             New(i) == i \in DOMAIN ahead /\ next[i] = ahead[i]
  <2>1. (New(j) \/ Old(j)) /\ (New(k) \/ Old(k))
    BY <1>6
  <2>2. CASE New(j) /\ New(k)
    BY <1>4, <1>17, <2>2
  <2>3. CASE Old(j) /\ Old(k)
    <3>1. (j - Len(ahead)) + 1 = (k - Len(ahead)) + 1
      BY <1>1, <1>17, <2>3
    <3>2. j \in Nat /\ k \in Nat /\ Len(ahead) \in Nat
      BY <1>5
    <3> QED BY <3>1, <3>2
  <2>4. ASSUME New(j), Old(k) PROVE FALSE
    <3> DEFINE s == next[k].path
               r == next[j].path
    <3>1. r \in Counted /\ Under(q, r) /\ Under(r, s)
      BY <1>4, <1>10, <1>17, <2>4
    <3>2. s \in Counted
      BY <1>5a
    <3>3. q \in Seq(Steps) /\ r \in Seq(Steps) /\ s \in Seq(Steps)
      BY <1>3, <1>9, <3>1, <3>2
    <3>4. Under(q, s)
      BY <3>1, <3>3, UnderUnder
    <3> QED BY <1>1, <1>2, <2>4, <3>4 DEF q
  <2>5. ASSUME Old(j), New(k) PROVE FALSE
    <3> DEFINE s == next[j].path
               r == next[k].path
    <3>1. r \in Counted /\ Under(q, r) /\ Under(s, r)
      BY <1>4, <1>10, <1>17, <2>5
    <3>2. s \in Counted
      BY <1>5a
    <3>3. q \in Seq(Steps) /\ r \in Seq(Steps) /\ s \in Seq(Steps) /\ Len(q) \in Nat /\ Len(s) \in Nat
      BY <1>3, <1>9, <3>1, <3>2, LenProperties
    <3>4. Under(q, s) \/ Under(s, q)
      <4>1. CASE Len(q) <= Len(s)
        BY <3>1, <3>3, <4>1, UnderBoth
      <4>2. CASE Len(s) <= Len(q)
        BY <3>1, <3>3, <4>2, UnderBoth
      <4> QED BY <3>3, <4>1, <4>2
    <3> QED BY <1>1, <1>2, <2>5, <3>4 DEF q
  <2> QED BY <2>1, <2>2, <2>3, <2>4, <2>5
<1>18. /\ top \in Nat /\ \A p \in Done \cup {q} : DepthOf(p) <= top
       /\ top = 0 \/ \E p \in Done \cup {q} : DepthOf(p) = top
  <2>1. \A p \in Counted : DepthOf(p) \in Nat
    BY TreeDepthIs
  <2> QED BY <1>1, <1>3, <1>13, <2>1
<1> HIDE DEF top, Done
<1>19. Sound(unit, next, nodeCount + 1, top)
  BY <1>5, <1>13, <1>14, <1>16, <1>17, <1>18 DEF Sound, Counted, DepthOf, T
<1> QED BY <1>1, <1>3, <1>14, <1>15, <1>19 DEF next, ahead, rest, q, node, top

-----------------------------------------------------------------------------
(* The invariant of the pipeline.  Nothing is counted before the walk; a   *)
(* walk without limits counts nothing; otherwise its counts are right as   *)
(* long as it is within the limits, and it ends where it goes beyond one.  *)
Idle == todo = <<>> /\ nodeCount = 0 /\ maxDepth = 0 /\ exceeded = "none"

Walked ==
    IF limits = Unlimited THEN Idle
    ELSE IF exceeded = "none"
         THEN /\ Sound(unit, todo, nodeCount, maxDepth)
              /\ Promise!Within(limits.node, nodeCount)
              /\ Promise!Within(limits.depth, maxDepth)
         ELSE todo = <<>> /\ ~Promise!WithinTree(unit)

PipelineInv ==
    /\ stage \in {"parse", "check", "walk", "done"}
    /\ stage = "parse" => parsed = NoTree /\ result = NoResult
    /\ stage \in {"parse", "check"} => Idle
    /\ stage \in {"check", "walk"} =>
          IsTree(unit) /\ parsed # NoTree /\ unit = WithoutBlank(parsed) /\ result = NoResult
    /\ stage = "walk" => limits \in [node : Nat, depth : Nat] /\ Walked

(* The call starts within the invariant.                                   *)
LEMMA PipelineInvInit == PipelineInit => PipelineInv
BY DEF PipelineInit, PipelineInv, Idle

(* The call of the validator keeps it: process() puts the statements on    *)
(* the stack, or there is no limit and nothing to do.                      *)
LEMMA ValidateKeeps == PipelineInv /\ Validate => PipelineInv'
<1> SUFFICES ASSUME PipelineInv, Validate PROVE PipelineInv'
  OBVIOUS
<1>1. /\ IsTree(unit) /\ parsed # NoTree /\ unit = WithoutBlank(parsed) /\ result = NoResult
      /\ Idle
  BY DEF PipelineInv, Validate
<1>2. PICK n \in NodeLimits, d \in DepthLimits : limits' = [node |-> n, depth |-> d]
  BY DEF Validate
<1>3. limits' \in [node : Nat, depth : Nat]
  BY <1>2, LimitsAssumption
<1>4. unit' = unit /\ parsed' = parsed /\ result' = result /\ stage' = "walk"
  BY DEF Validate
<1>5. CASE limits' = Unlimited
  <2>1. UNCHANGED <<todo, nodeCount, maxDepth, exceeded>>
    BY <1>5 DEF Validate, walk
  <2>2. Idle'
    BY <1>1, <2>1 DEF Idle
  <2>3. Walked'
    BY <1>5, <2>2 DEF Walked, Unlimited
  <2> QED BY <1>1, <1>3, <1>4, <2>3 DEF PipelineInv
<1>6. CASE limits' # Unlimited
  <2>1. todo' = At(Accepted(<<>>), 1) /\ nodeCount' = 0 /\ maxDepth' = 0 /\ exceeded' = "none"
    BY <1>6 DEF Validate, Process
  <2>2. Sound(unit, At(Accepted(<<>>), 1), 0, 0)
    BY <1>1, ProcessSound
  <2>3. Sound(unit, todo, nodeCount, maxDepth)'
    BY <1>4, <2>1, <2>2
  <2>4. Promise!Within(limits.node, nodeCount)' /\ Promise!Within(limits.depth, maxDepth)'
    BY <1>3, <2>1 DEF Promise!Within
  <2>5. Walked'
    BY <1>6, <2>1, <2>3, <2>4 DEF Walked, Unlimited
  <2> QED BY <1>1, <1>3, <1>4, <2>5 DEF PipelineInv
<1> QED BY <1>5, <1>6

(* A node keeps it: it is counted, and its children take its place; or it  *)
(* is one too many or too deep, and the walk ends.                         *)
LEMMA WalkKeeps == PipelineInv /\ Walk => PipelineInv'
<1> SUFFICES ASSUME PipelineInv, Walk PROVE PipelineInv'
  OBVIOUS
<1> DEFINE node == Head(todo)
           count == nodeCount + 1
           top == IF node.depth > maxDepth THEN node.depth ELSE maxDepth
<1>1. /\ IsTree(unit) /\ parsed # NoTree /\ unit = WithoutBlank(parsed) /\ result = NoResult
      /\ limits \in [node : Nat, depth : Nat] /\ Walked /\ todo # <<>>
  BY DEF PipelineInv, Walk, Accept
<1>2. /\ Sound(unit, todo, nodeCount, maxDepth) /\ limits # Unlimited /\ exceeded = "none"
      /\ Promise!Within(limits.node, nodeCount) /\ Promise!Within(limits.depth, maxDepth)
  BY <1>1 DEF Walked, Idle
<1>3. /\ unit' = unit /\ limits' = limits /\ parsed' = parsed /\ result' = result
      /\ stage' = stage /\ stage = "walk"
  BY DEF Walk, Accept
<1>4. /\ nodeCount' = count /\ maxDepth' = top /\ exceeded' = Failure(node.depth)
      /\ todo' = IF exceeded' # "none" THEN <<>>
                 ELSE At(Accepted(node.path), node.depth + 1) \o Tail(todo)
  BY DEF Walk, Accept
<1>5. /\ Sound(unit, At(Accepted(node.path), node.depth + 1) \o Tail(todo), count, top)
      /\ count <= Cardinality(Counted) /\ node.depth <= Promise!TreeDepth(unit)
      /\ nodeCount \in Nat /\ node.depth \in Nat /\ maxDepth \in Nat
  BY <1>1, <1>2, AcceptSound
<1>6. limits.node \in Nat /\ limits.depth \in Nat
  BY <1>1
<1>7. Cardinality(Counted) \in Nat /\ Promise!TreeDepth(unit) \in Nat
  BY <1>1, CountedAre, FS_CardinalityType, TreeDepthIs
<1> HIDE DEF node
<1>8. CASE exceeded' = "none"
  <2>1. /\ ~(limits.node > 0 /\ nodeCount + 1 > limits.node)
        /\ ~(limits.depth > 0 /\ node.depth > limits.depth)
    BY <1>4, <1>8 DEF Failure
  <2>2. Promise!Within(limits.node, count) /\ Promise!Within(limits.depth, top)
    BY <1>2, <1>5, <1>6, <2>1 DEF Promise!Within
  <2>3. Sound(unit, todo', count, top)
    BY <1>4, <1>5, <1>8
  <2> HIDE DEF top, count
  <2>4. /\ Sound(unit, todo, nodeCount, maxDepth)'
        /\ Promise!Within(limits.node, nodeCount)' /\ Promise!Within(limits.depth, maxDepth)'
    BY <1>3, <1>4, <2>2, <2>3
  <2>5. Walked'
    BY <1>2, <1>3, <1>8, <2>4 DEF Walked, Unlimited
  <2> QED BY <1>1, <1>3, <2>5 DEF PipelineInv
<1>9. CASE exceeded' # "none"
  <2>1. \/ limits.node > 0 /\ nodeCount + 1 > limits.node
        \/ limits.depth > 0 /\ node.depth > limits.depth
    BY <1>4, <1>9 DEF Failure
  <2>2. \/ ~Promise!Within(limits.node, Cardinality(Counted))
        \/ ~Promise!Within(limits.depth, Promise!TreeDepth(unit))
    BY <1>5, <1>6, <1>7, <2>1 DEF Promise!Within
  <2>3. ~Promise!WithinTree(unit)
    BY <2>2, PromiseTerms DEF Promise!WithinTree, Counted
  <2>4. ~Promise!WithinTree(unit)'
    BY <1>3, <2>3 DEF Promise!WithinTree
  <2>5. Walked'
    BY <1>2, <1>3, <1>4, <1>9, <2>4 DEF Walked, Unlimited
  <2> QED BY <1>1, <1>3, <2>5 DEF PipelineInv
<1> QED BY <1>8, <1>9

(* Every step keeps it.                                                    *)
LEMMA PipelineInvStep == PipelineInv /\ [PipelineNext]_all => PipelineInv'
<1> SUFFICES ASSUME PipelineInv, [PipelineNext]_all PROVE PipelineInv'
  OBVIOUS
<1>1. ASSUME UNCHANGED pipeline PROVE PipelineInv'
  <2>1. UNCHANGED <<stage, unit, parsed, limits, result, todo, nodeCount, maxDepth, exceeded>>
    BY <1>1 DEF pipeline, walk
  <2>2. Idle' <=> Idle
    BY <2>1 DEF Idle
  <2>3. Walked' <=> Walked
    BY <2>1, <2>2 DEF Walked, Sound, Awaited, Promise!WithinTree, Unlimited
  <2> QED BY <2>1, <2>2, <2>3 DEF PipelineInv
<1>2. CASE Scan
  BY <1>1, <1>2 DEF Scan
<1>3. CASE SyntaxError \/ ListError \/ Finish
  <2>1. stage' = "done"
    BY <1>3 DEF SyntaxError, ListError, Finish, Refuse
  <2> QED BY <2>1 DEF PipelineInv
<1>4. CASE Success
  <2>1. /\ parsed' \in Trees /\ unit' = WithoutBlank(parsed') /\ stage' = "check" /\ stage = "parse"
        /\ UNCHANGED <<todo, nodeCount, maxDepth, exceeded, result>>
    BY <1>4 DEF Success, Build, walk
  <2>2. IsTree(unit') /\ parsed' # NoTree
    BY <2>1, TreesAssumption, WithoutBlankTree
  <2>3. Idle /\ result = NoResult
    BY <2>1 DEF PipelineInv
  <2>4. Idle'
    BY <2>1, <2>3 DEF Idle
  <2>5. IsTree(unit)' /\ result' = NoResult /\ unit' = WithoutBlank(parsed)'
    BY <2>1, <2>2, <2>3
  <2> QED BY <2>1, <2>2, <2>4, <2>5 DEF PipelineInv
<1>5. CASE Validate
  BY <1>5, ValidateKeeps
<1>6. CASE Walk
  BY <1>6, WalkKeeps
<1>7. CASE UNCHANGED all
  BY <1>1, <1>7 DEF all
<1> QED BY <1>2, <1>3, <1>4, <1>5, <1>6, <1>7 DEF PipelineNext

(* Whatever the document, the tree, the limits: as long as the validator   *)
(* walks, its counters have exactly the nodes that are no longer awaited   *)
(* on the stack and the depth of the deepest of them, and a walk that was  *)
(* stopped has met a tree beyond its limits.                               *)
THEOREM WalkRight == PipelineSpec => []PipelineInv
<1>1. PipelineInit => PipelineInv
  BY PipelineInvInit
<1>2. PipelineInv /\ [PipelineNext]_all => PipelineInv'
  BY PipelineInvStep
<1> QED BY <1>1, <1>2, PTL DEF PipelineSpec

-----------------------------------------------------------------------------
(* A tree has a list that is too long if it is not within the limits.      *)
LEMMA TooLongIs ==
    ASSUME NEW tree \in Trees, NEW limit \in ListLimits
    PROVE  TooLong(tree, limit) <=> ~Promise!WithinLists(tree, limit)
<1>1. ASSUME NEW p \in DOMAIN tree, NEW f \in Operands(tree[p].class)
      PROVE  tree[p].size[f.name] \in Nat
  <2>1. IsNode(tree[p]) /\ f.name \in OperandNames(tree[p].class)
    BY TreesAssumption DEF IsTree, OperandNames
  <2> QED BY <2>1 DEF IsNode
<1>2. \A kind \in DOMAIN limit : limit[kind] \in Nat
  BY LimitsAssumption
<1>3. ASSUME NEW p \in DOMAIN tree, NEW f \in Operands(tree[p].class), f.kind \in DOMAIN limit
      PROVE  limit[f.kind] # 0 /\ limit[f.kind] < tree[p].size[f.name]
                <=> ~Promise!Within(limit[f.kind], tree[p].size[f.name])
  BY <1>1, <1>2, <1>3 DEF Promise!Within
<1>4. Promise!WithinLists(tree, limit) <=>
         \A path \in DOMAIN tree : \A f \in Operands(tree[path].class) :
             f.kind \in DOMAIN limit => Promise!Within(limit[f.kind], tree[path].size[f.name])
  BY PromiseTerms DEF Promise!WithinLists
<1> QED BY <1>3, <1>4 DEF TooLong

(* Where a walk ends, its counts are those of the whole tree.              *)
LEMMA WalkEnds ==
    ASSUME IsTree(unit), limits \in [node : Nat, depth : Nat], Walked, todo = <<>>
    PROVE  /\ exceeded # "none" => ~Promise!WithinTree(unit)
           /\ exceeded = "none" =>
                 /\ Promise!WithinTree(unit)
                 /\ LET counted == limits.node > 0 \/ limits.depth > 0 IN
                    /\ nodeCount = IF counted THEN Cardinality(Counted) ELSE 0
                    /\ maxDepth = IF counted THEN Promise!TreeDepth(unit) ELSE 0
<1>1. CASE limits = Unlimited
  <2>1. exceeded = "none" /\ nodeCount = 0 /\ maxDepth = 0
    BY <1>1 DEF Walked, Idle
  <2>2. limits.node = 0 /\ limits.depth = 0
    BY <1>1 DEF Unlimited
  <2> QED BY <2>1, <2>2 DEF Promise!WithinTree, Promise!Within
<1>2. CASE limits # Unlimited /\ exceeded # "none"
  BY <1>2 DEF Walked
<1>3. CASE limits # Unlimited /\ exceeded = "none"
  <2>1. /\ Sound(unit, todo, nodeCount, maxDepth)
        /\ Promise!Within(limits.node, nodeCount) /\ Promise!Within(limits.depth, maxDepth)
    BY <1>3 DEF Walked
  <2>2. DOMAIN todo = {}
    OBVIOUS
  <2>3. Awaited(unit, todo) = {}
    BY <2>2 DEF Awaited
  <2>4. /\ nodeCount = Cardinality(Counted) /\ maxDepth \in Nat
        /\ \A p \in Counted : DepthOf(p) <= maxDepth
        /\ maxDepth = 0 \/ \E p \in Counted : DepthOf(p) = maxDepth
    BY <2>1, <2>3 DEF Sound, Counted, DepthOf
  <2>5. maxDepth = Promise!TreeDepth(unit)
    BY <2>4, TreeDepthIs
  <2>6. limits.node > 0 \/ limits.depth > 0
    <3>1. limits = [node |-> limits.node, depth |-> limits.depth]
          /\ limits.node \in Nat /\ limits.depth \in Nat
      OBVIOUS
    <3>2. limits.node # 0 \/ limits.depth # 0
      BY <1>3, <3>1 DEF Unlimited
    <3> QED BY <3>1, <3>2
  <2>7. Promise!WithinTree(unit)
    BY <2>1, <2>4, <2>5, PromiseTerms DEF Promise!WithinTree, Counted
  <2> QED BY <1>3, <2>4, <2>5, <2>6, <2>7
<1> QED BY <1>1, <1>2, <1>3

Outcome == IF result.kind = "diagnostic" THEN [kind |-> "diagnostic"] ELSE result

(* The call starts where the promise starts.                               *)
LEMMA PromiseInit == PipelineInit => Promise!Init
BY DEF PipelineInit, Promise!Init, NoResult

(* The end of a walk is the step that keeps the promise.                   *)
LEMMA FinishKept == PipelineInv /\ Finish => Promise!Next
<1> SUFFICES ASSUME PipelineInv, Finish PROVE Promise!Next
  OBVIOUS
<1>1. /\ stage = "walk" /\ todo = <<>>
      /\ result' = IF exceeded # "none"
                   THEN [kind |-> "diagnostic", code |-> "exceed_number_of_elements"]
                   ELSE [kind |-> "tree", tree |-> unit, count |-> nodeCount, depth |-> maxDepth]
      /\ parsed' = parsed /\ limits' = limits /\ lists' = lists
  BY DEF Finish
<1>2. /\ IsTree(unit) /\ parsed # NoTree /\ unit = WithoutBlank(parsed)
      /\ result.kind = "open" /\ Outcome = result
      /\ limits \in [node : Nat, depth : Nat] /\ Walked
  BY <1>1 DEF PipelineInv, NoResult, Outcome
<1>3. Promise!Result = unit
  BY <1>2, PromiseTerms DEF Promise!Result
<1>4. CASE exceeded # "none"
  <2>1. ~Promise!WithinTree(Promise!Result)
    BY <1>1, <1>2, <1>3, <1>4, WalkEnds
  <2>2. result'.kind = "diagnostic"
    BY <1>1, <1>4
  <2>3. Promise!RefuseTree
    BY <1>1, <1>2, <2>1, <2>2 DEF Promise!RefuseTree, Promise!Refuse, Outcome
  <2> QED BY <2>3 DEF Promise!Next
<1>5. CASE exceeded = "none"
  <2> DEFINE counted == limits.node > 0 \/ limits.depth > 0
  <2>1. /\ Promise!WithinTree(Promise!Result)
        /\ nodeCount = IF counted THEN Cardinality(Counted) ELSE 0
        /\ maxDepth = IF counted THEN Promise!TreeDepth(unit) ELSE 0
    BY <1>1, <1>2, <1>3, <1>5, WalkEnds
  <2>2. Promise!Cardinality(Promise!Nodes(Promise!Result)) = Cardinality(Counted)
    BY <1>3, PromiseTerms DEF Counted
  <2>3. result' = [kind |-> "tree", tree |-> Promise!Result,
                   count |-> IF counted THEN Promise!Cardinality(Promise!Nodes(Promise!Result)) ELSE 0,
                   depth |-> IF counted THEN Promise!TreeDepth(Promise!Result) ELSE 0]
    BY <1>1, <1>3, <1>5, <2>1, <2>2
  <2>4. result'.kind # "diagnostic"
    BY <2>3
  <2>5. Promise!Accept
    BY <1>1, <1>2, <2>1, <2>3, <2>4 DEF Promise!Accept, Outcome
  <2> QED BY <2>5 DEF Promise!Next
<1> QED BY <1>4, <1>5

(* Every other step keeps it too, or changes nothing it speaks of.         *)
LEMMA PromiseStep == PipelineInv /\ [PipelineNext]_all => [Promise!Next]_(Promise!vars)
<1> SUFFICES ASSUME PipelineInv, [PipelineNext]_all PROVE [Promise!Next]_(Promise!vars)
  OBVIOUS
<1>1. ASSUME UNCHANGED <<parsed, limits, lists, result>> PROVE UNCHANGED Promise!vars
  BY <1>1 DEF Promise!vars
<1>2. CASE Scan \/ UNCHANGED all
  BY <1>1, <1>2 DEF Scan, all, pipeline
<1>3. CASE Walk
  BY <1>1, <1>3 DEF Walk, Accept
<1>4. CASE SyntaxError
  <2>1. /\ stage = "parse" /\ result' = [kind |-> "diagnostic", code |-> "syntax_error"]
        /\ parsed' = parsed /\ limits' = limits /\ lists' = lists
    BY <1>4 DEF SyntaxError, Refuse
  <2>2. parsed = NoTree /\ result.kind = "open" /\ result'.kind = "diagnostic"
    BY <2>1 DEF PipelineInv, NoResult
  <2>3. Promise!RefuseDocument
    BY <2>1, <2>2 DEF Promise!RefuseDocument, Promise!Refuse
  <2> QED BY <2>3 DEF Promise!Next
<1>5. CASE ListError
  <2>1. /\ stage = "parse" /\ parsed' \in Trees /\ lists' \in ListLimits /\ TooLong(parsed', lists')
        /\ result' = [kind |-> "diagnostic", code |-> "exceed_number_of_elements"]
    BY <1>5 DEF ListError, Build, Refuse
  <2>2. parsed = NoTree /\ result.kind = "open" /\ result'.kind = "diagnostic" /\ parsed' # NoTree
    BY <2>1, TreesAssumption DEF PipelineInv, NoResult
  <2>3. ~Promise!WithinLists(parsed', lists')
    BY <2>1, TooLongIs
  <2>4. Promise!Parse
    BY <2>2, <2>3 DEF Promise!Parse, Promise!Refuse
  <2> QED BY <2>4 DEF Promise!Next
<1>6. CASE Success
  <2>1. /\ stage = "parse" /\ parsed' \in Trees /\ lists' \in ListLimits /\ ~TooLong(parsed', lists')
        /\ result' = result
    BY <1>6 DEF Success, Build
  <2>2. parsed = NoTree /\ parsed' # NoTree
    BY <2>1, TreesAssumption DEF PipelineInv
  <2>3. Promise!WithinLists(parsed', lists')
    BY <2>1, TooLongIs
  <2>4. Promise!Parse
    BY <2>1, <2>2, <2>3 DEF Promise!Parse
  <2> QED BY <2>4 DEF Promise!Next
<1>7. CASE Validate
  <2>1. parsed # NoTree /\ result.kind = "open"
        /\ parsed' = parsed /\ lists' = lists /\ result' = result
    BY <1>7 DEF Validate, PipelineInv, NoResult
  <2>2. Promise!Configure
    BY <2>1 DEF Promise!Configure
  <2> QED BY <2>2 DEF Promise!Next
<1>8. CASE Finish
  BY <1>8, FinishKept
<1> QED BY <1>2, <1>3, <1>4, <1>5, <1>6, <1>7, <1>8 DEF PipelineNext

(* The parser keeps the promise of its options, for every tree the grammar *)
(* can build and all limits: the tree is given back if and only if no list *)
(* is too long and its nodes and its depth are within the limits, and      *)
(* then, if it was counted, with the number of nodes and the depth that    *)
(* TreeLimits says.                                                        *)
THEOREM LimitsRight == PipelineSpec => LimitsKept
<1>1. PipelineInit => Promise!Init
  BY PromiseInit
<1>2. PipelineInv /\ [PipelineNext]_all => [Promise!Next]_(Promise!vars)
  BY PromiseStep
<1>3. PipelineSpec => []PipelineInv
  BY WalkRight
<1> QED BY <1>1, <1>2, <1>3, PTL DEF PipelineSpec, LimitsKept, Promise!Spec

-----------------------------------------------------------------------------
(* Copies and comparison of trees.                                         *)

(* The step from the node above to a node is of an operand.                *)
LEMMA StepOf ==
    ASSUME NEW tree, IsTree(tree), NEW p \in DOMAIN tree, NEW n \in DOMAIN p
    PROVE  LET above == SubSeq(p, 1, n - 1) IN
           /\ above \in DOMAIN tree /\ tree[above].class \in DOMAIN Class
           /\ p[n][1] \in OperandNames(tree[above].class)
           /\ SubSeq(p, 1, n) \in DOMAIN tree
<1> DEFINE above == SubSeq(p, 1, n - 1)
           q == SubSeq(p, 1, n)
<1>1. p \in Seq(Steps) /\ Len(p) \in Nat /\ n \in 1..Len(p)
  BY PathsOfTree, LenProperties
<1>2. n \in 0..Len(p) /\ n - 1 \in 0..Len(p) /\ n - 1 \in 0..n /\ n >= 1 /\ n \in 1..n
  BY <1>1
<1>3. above \in DOMAIN tree /\ q \in DOMAIN tree /\ Len(q) = n /\ q[n] = p[n]
  BY <1>1, <1>2, PathsOfTree, Prefix
<1>4. SubSeq(q, 1, n - 1) = above
  BY <1>1, <1>2, PrefixOfPrefix
<1> HIDE DEF above, q
<1>5. q # <<>>
  <2>1. Len(<<>>) = 0
    OBVIOUS
  <2> QED BY <1>2, <1>3, <2>1
<1>6. Parent(q) = above /\ Member(q) = p[n][1]
  BY <1>3, <1>4 DEF Parent, Member
<1>7. Member(q) \in OperandNames(tree[above].class)
  BY <1>3, <1>5, <1>6, ParentInTree
<1>8. tree[above].class \in DOMAIN Class
  BY <1>3 DEF IsTree, IsNode
<1> QED BY <1>3, <1>6, <1>7, <1>8 DEF above, q

(* clone() makes the same tree.                                            *)
LEMMA CopyIs ==
    ASSUME NEW tree, IsTree(tree)
    PROVE  Copy(tree) = tree
<1>1. Reached(tree, Copied) = DOMAIN tree
  <2>1. ASSUME NEW p \in DOMAIN tree, NEW n \in DOMAIN p
        PROVE  p[n][1] \in Copied(tree[SubSeq(p, 1, n - 1)].class)
    <3>1. /\ tree[SubSeq(p, 1, n - 1)].class \in DOMAIN Class
          /\ p[n][1] \in OperandNames(tree[SubSeq(p, 1, n - 1)].class)
      BY StepOf
    <3> QED BY <3>1, TablesExact DEF Exact, CopyExact
  <2> QED BY <2>1 DEF Reached
<1>2. ASSUME NEW p \in DOMAIN tree
      PROVE  LET node == tree[p] IN
             /\ node = [class |-> node.class, size |-> node.size, datum |-> node.datum]
             /\ node.size = [m \in DOMAIN node.size \cap Copied(node.class) |-> node.size[m]]
             /\ node.datum = [m \in DOMAIN node.datum \cap Copied(node.class) |-> node.datum[m]]
  <2> DEFINE node == tree[p]
  <2>1. /\ node = [class |-> node.class, size |-> node.size, datum |-> node.datum]
        /\ node.class \in DOMAIN Class
        /\ node.size \in [OperandNames(node.class) -> Nat]
        /\ node.datum \in [Data(node.class) -> {0, 1}]
    BY DEF IsTree, IsNode
  <2>2. OperandNames(node.class) \subseteq Copied(node.class) /\ Data(node.class) \subseteq Copied(node.class)
    BY <2>1, TablesExact DEF Exact, CopyExact
  <2> HIDE DEF node
  <2>3. DOMAIN node.size \cap Copied(node.class) = DOMAIN node.size
        /\ DOMAIN node.datum \cap Copied(node.class) = DOMAIN node.datum
    BY <2>1, <2>2
  <2>4. node.size = [m \in DOMAIN node.size |-> node.size[m]]
        /\ node.datum = [m \in DOMAIN node.datum |-> node.datum[m]]
    BY <2>1
  <2>5. /\ node.size = [m \in DOMAIN node.size \cap Copied(node.class) |-> node.size[m]]
        /\ node.datum = [m \in DOMAIN node.datum \cap Copied(node.class) |-> node.datum[m]]
    BY <2>3, <2>4
  <2> QED BY <2>1, <2>5 DEF node
<1>3. tree = [p \in DOMAIN tree |-> tree[p]]
  BY DEF IsTree
<1> DEFINE Again(p) ==
        [class |-> tree[p].class,
         size |-> [m \in DOMAIN tree[p].size \cap Copied(tree[p].class) |-> tree[p].size[m]],
         datum |-> [m \in DOMAIN tree[p].datum \cap Copied(tree[p].class) |-> tree[p].datum[m]]]
<1>4. Copy(tree) = [p \in DOMAIN tree |-> Again(p)]
  BY <1>1 DEF Copy, Kept
<1>5. ASSUME NEW p \in DOMAIN tree PROVE Again(p) = tree[p]
  <2> DEFINE node == tree[p]
             a == [m \in DOMAIN node.size \cap Copied(node.class) |-> node.size[m]]
             b == [m \in DOMAIN node.datum \cap Copied(node.class) |-> node.datum[m]]
  <2>1. Again(p) = [class |-> node.class, size |-> a, datum |-> b]
    OBVIOUS
  <2>2. a = node.size /\ b = node.datum
        /\ node = [class |-> node.class, size |-> node.size, datum |-> node.datum]
    BY <1>2
  <2> HIDE DEF a, b, node, Again
  <2>3. Again(p) = node
    BY <2>1, <2>2
  <2> QED BY <2>3 DEF node
<1> HIDE DEF Again
<1>6. Copy(tree) = [p \in DOMAIN tree |-> tree[p]]
  BY <1>4, <1>5
<1> QED BY <1>3, <1>6

-----------------------------------------------------------------------------
(* operator==.                                                             *)
Looked(tree) == Reached(tree, Compared)

NodeKept(tree, p) ==
    [class |-> tree[p].class,
     size |-> [m \in DOMAIN tree[p].size \cap Compared(tree[p].class) |-> tree[p].size[m]],
     datum |-> [m \in DOMAIN tree[p].datum \cap Compared(tree[p].class) |-> tree[p].datum[m]]]

(* operator== is equality of what is looked at.                            *)
LEMMA EqualIs ==
    ASSUME NEW a, NEW b
    PROVE  Equal(a, b) <=> /\ Looked(a) = Looked(b)
                           /\ \A p \in Looked(a) : NodeKept(a, p) = NodeKept(b, p)
<1> DEFINE f == [p \in Looked(a) |-> NodeKept(a, p)]
           g == [p \in Looked(b) |-> NodeKept(b, p)]
<1>1. Equal(a, b) <=> f = g
  BY DEF Equal, Kept, Looked, NodeKept
<1>2. DOMAIN f = Looked(a) /\ DOMAIN g = Looked(b)
  OBVIOUS
<1>3. \A p \in Looked(a) : f[p] = NodeKept(a, p)
  OBVIOUS
<1>4. \A p \in Looked(b) : g[p] = NodeKept(b, p)
  OBVIOUS
<1>5. ASSUME Looked(a) = Looked(b), \A p \in Looked(a) : NodeKept(a, p) = NodeKept(b, p)
      PROVE  f = g
  BY <1>5
<1> HIDE DEF f, g
<1> QED BY <1>1, <1>2, <1>3, <1>4, <1>5

(* A node is looked at if no step to it goes through an ignored member.    *)
LEMMA LookedAre ==
    ASSUME NEW tree, IsTree(tree), NEW p \in DOMAIN tree
    PROVE  p \in Looked(tree) <=> \A n \in DOMAIN p : Promise!Step(tree, p, n) \notin Ignored
<1>1. p \in Looked(tree) <=>
          \A n \in DOMAIN p : p[n][1] \in Compared(tree[SubSeq(p, 1, n - 1)].class)
  BY DEF Looked, Reached
<1>2. ASSUME NEW n \in DOMAIN p
      PROVE  p[n][1] \in Compared(tree[SubSeq(p, 1, n - 1)].class)
                <=> Promise!Step(tree, p, n) \notin Ignored
  <2>1. /\ tree[SubSeq(p, 1, n - 1)].class \in DOMAIN Class
        /\ p[n][1] \in OperandNames(tree[SubSeq(p, 1, n - 1)].class)
    BY StepOf
  <2> QED BY <2>1, TablesExact DEF Exact, CopyExact, Promise!Step
<1> QED BY <1>1, <1>2

(* A change of a member is not seen if a step to it is ignored.            *)
LEMMA BelowIs ==
    ASSUME NEW tree, IsTree(tree), NEW p \in DOMAIN tree,
           NEW m \in OperandNames(tree[p].class) \cup Data(tree[p].class)
    PROVE  Below(tree, p, m) \cap Ignored # {}
              <=> ~(p \in Looked(tree) /\ m \in Compared(tree[p].class))
<1> DEFINE e == <<m, 1>>
           child == Child(p, m, 1)
<1>1. p \in Seq(Steps) /\ Len(p) \in Nat /\ DOMAIN p = 1..Len(p)
  BY PathsOfTree, LenProperties
<1>2. p \in Seq(Steps \cup {e}) /\ e \in Steps \cup {e} /\ child = Append(p, e)
  <2>1. child = Append(p, e)
    BY DEF Child
  <2> HIDE DEF e
  <2>2. Steps \subseteq Steps \cup {e} /\ e \in Steps \cup {e}
    OBVIOUS
  <2> QED BY <1>1, <2>1, <2>2, SeqMonotonic
<1>3. e[1] = m
  OBVIOUS
<1> HIDE DEF e, child
<1>4. /\ \A i \in 1..Len(p) : child[i] = p[i]
      /\ child[Len(p) + 1] = e
  BY <1>2, AppendProperties
<1>5. ASSUME NEW n \in 1..Len(p)
      PROVE  Promise!Step(tree, child, n) = Promise!Step(tree, p, n)
  <2>1. n - 1 \in 0..Len(p)
    BY <1>1
  <2>2. SubSeq(child, 1, n - 1) = SubSeq(p, 1, n - 1)
    BY <1>2, <2>1, PrefixOfChild
  <2> QED BY <1>4, <2>2 DEF Promise!Step
<1>6. Promise!Step(tree, child, Len(p) + 1) = <<tree[p].class, m>>
  <2>1. (Len(p) + 1) - 1 = Len(p) /\ Len(p) \in 0..Len(p)
    BY <1>1
  <2>2. SubSeq(child, 1, Len(p)) = p
    BY <1>1, <1>2, <2>1, PrefixOfChild, SubSeqFull
  <2> QED BY <1>3, <1>4, <2>1, <2>2 DEF Promise!Step
<1>7. 1..(Len(p) + 1) = 1..Len(p) \cup {Len(p) + 1}
  BY <1>1
<1>8. Below(tree, p, m) = {Promise!Step(tree, child, n) : n \in 1..(Len(p) + 1)}
  BY DEF Below, child
<1>9. Below(tree, p, m) \cap Ignored = {} <=>
         /\ \A n \in 1..Len(p) : Promise!Step(tree, p, n) \notin Ignored
         /\ <<tree[p].class, m>> \notin Ignored
  BY <1>5, <1>6, <1>7, <1>8
<1>10. m \in Compared(tree[p].class) <=> <<tree[p].class, m>> \notin Ignored
  <2>1. tree[p].class \in DOMAIN Class
    BY DEF IsTree, IsNode
  <2> QED BY <2>1, TablesExact DEF Exact, CopyExact
<1> QED BY <1>1, <1>9, <1>10, LookedAre

(* Trees that differ in one datum.                                         *)
LEMMA ChangedDatumIs ==
    ASSUME NEW tree, IsTree(tree), NEW path \in DOMAIN tree, NEW datum \in DOMAIN tree[path].datum
    PROVE  Equal(tree, ChangedDatum(tree, path, datum))
              <=> Below(tree, path, datum) \cap Ignored # {}
<1> DEFINE other == ChangedDatum(tree, path, datum)
           node == tree[path]
           old == node.datum
           new == [old EXCEPT ![datum] = 1 - old[datum]]
           changed == [class |-> node.class, size |-> node.size, datum |-> new]
<1>1. /\ node = [class |-> node.class, size |-> node.size, datum |-> old]
      /\ node.class \in DOMAIN Class /\ old \in [Data(node.class) -> {0, 1}]
      /\ tree = [p \in DOMAIN tree |-> tree[p]]
      /\ datum \in Data(node.class)
  BY DEF IsTree, IsNode
<1>2. other = [tree EXCEPT ![path] = changed]
  <2>1. other = [tree EXCEPT ![path] = [node EXCEPT !.datum = new]]
    BY DEF ChangedDatum
  <2>2. [node EXCEPT !.datum = new] = changed
    <3> HIDE DEF node, new, old
    <3> QED BY <1>1 DEF old
  <2> QED BY <2>1, <2>2
<1>3. /\ DOMAIN other = DOMAIN tree /\ other[path] = changed
      /\ \A p \in DOMAIN tree : p # path => other[p] = tree[p]
  <2> HIDE DEF other, changed
  <2> QED BY <1>1, <1>2
<1> HIDE DEF other
<1>4. \A p \in DOMAIN tree : other[p].class = tree[p].class /\ other[p].size = tree[p].size
  BY <1>3
<1>5. Looked(other) = Looked(tree)
  <2>1. ASSUME NEW p \in DOMAIN tree, NEW n \in DOMAIN p
        PROVE  other[SubSeq(p, 1, n - 1)].class = tree[SubSeq(p, 1, n - 1)].class
    BY <1>4, StepOf
  <2> QED BY <1>3, <2>1 DEF Looked, Reached
<1>6. \A p \in DOMAIN tree : p # path => NodeKept(other, p) = NodeKept(tree, p)
  BY <1>3 DEF NodeKept
<1>7. NodeKept(tree, path) = NodeKept(other, path) <=> datum \notin Compared(node.class)
  <2> DEFINE kept == Compared(node.class)
             a == [m \in DOMAIN old \cap kept |-> old[m]]
             b == [m \in DOMAIN new \cap kept |-> new[m]]
             s == [m \in DOMAIN node.size \cap kept |-> node.size[m]]
  <2>1. /\ NodeKept(tree, path) = [class |-> node.class, size |-> s, datum |-> a]
        /\ NodeKept(other, path) = [class |-> node.class, size |-> s, datum |-> b]
    BY <1>3 DEF NodeKept
  <2>2. /\ DOMAIN new = DOMAIN old /\ new[datum] = 1 - old[datum] /\ new[datum] # old[datum]
        /\ \A m \in DOMAIN old : m # datum => new[m] = old[m]
    <3>1. old[datum] \in {0, 1}
      BY <1>1
    <3> HIDE DEF old
    <3> QED BY <1>1, <3>1
  <2> HIDE DEF old, new, kept, node
  <2>3. CASE datum \in kept
    <3>1. a[datum] = old[datum] /\ b[datum] = new[datum]
      BY <2>2, <2>3 DEF old, node
    <3>2. a # b
      BY <2>2, <3>1
    <3> HIDE DEF a, b, s
    <3>3. NodeKept(tree, path) # NodeKept(other, path)
      BY <2>1, <3>2
    <3> QED BY <2>3, <3>3 DEF kept
  <2>4. CASE datum \notin kept
    <3>1. a = b
      BY <2>2, <2>4
    <3> HIDE DEF a, b, s
    <3> QED BY <2>1, <2>4, <3>1 DEF kept
  <2> QED BY <2>3, <2>4
<1>8. Equal(tree, other) <=> ~(path \in Looked(tree) /\ datum \in Compared(node.class))
  <2>1. \A p \in Looked(tree) : p \in DOMAIN tree
    BY DEF Looked, Reached
  <2> HIDE DEF node
  <2>2. Equal(tree, other) <=> \A p \in Looked(tree) : NodeKept(tree, p) = NodeKept(other, p)
    BY <1>5, EqualIs
  <2> QED BY <1>6, <1>7, <2>1, <2>2
<1>9. Below(tree, path, datum) \cap Ignored # {}
         <=> ~(path \in Looked(tree) /\ datum \in Compared(node.class))
  BY <1>1, BelowIs
<1> QED BY <1>8, <1>9 DEF other

(* Trees that differ in one child less.                                    *)
LEMMA WithoutLastIs ==
    ASSUME NEW tree, IsTree(tree), NEW path \in DOMAIN tree,
           NEW f \in Operands(tree[path].class), tree[path].size[f.name] > 0
    PROVE  Equal(tree, WithoutLast(tree, path, f.name))
              <=> Below(tree, path, f.name) \cap Ignored # {}
<1> DEFINE member == f.name
           other == WithoutLast(tree, path, member)
           node == tree[path]
           old == node.size
           latest == old[member]
           lost == Child(path, member, latest)
           new == [old EXCEPT ![member] = latest - 1]
           changed == [class |-> node.class, size |-> new, datum |-> node.datum]
<1>1. /\ node = [class |-> node.class, size |-> old, datum |-> node.datum]
      /\ node.class \in DOMAIN Class /\ old \in [OperandNames(node.class) -> Nat]
      /\ member \in OperandNames(node.class)
  BY DEF IsTree, IsNode, OperandNames
<1>2. latest \in Nat /\ latest > 0 /\ latest \in 1..latest /\ latest - 1 # latest
  BY <1>1
<1>3. /\ lost \in DOMAIN tree /\ lost # <<>> /\ lost \in Seq(Steps) /\ Len(lost) = Len(path) + 1
      /\ Parent(lost) = path /\ Member(lost) = member
      /\ path \in Seq(Steps) /\ Len(path) \in Nat
  <2>1. path \in Seq(Steps) /\ Len(path) \in Nat
    BY PathsOfTree, LenProperties
  <2> HIDE DEF member
  <2> QED BY <1>1, <1>2, <2>1, ChildOfTree
<1> HIDE DEF lost
<1>4. ASSUME NEW p \in DOMAIN tree PROVE IsPrefix(lost, p) <=> Under(lost, p)
  <2>1. SubSeq(lost, 1, Len(lost)) = lost
    BY <1>3, SubSeqFull
  <2> QED BY <2>1 DEF IsPrefix, Under
<1> DEFINE rest == {p \in DOMAIN tree : ~Under(lost, p)}
<1>5. other = [p \in rest |-> IF p = path THEN changed ELSE tree[p]]
  <2>1. other = [p \in {p \in DOMAIN tree : ~IsPrefix(lost, p)} |->
                    IF p = path THEN [node EXCEPT !.size = new] ELSE tree[p]]
    BY DEF WithoutLast, lost
  <2>2. {p \in DOMAIN tree : ~IsPrefix(lost, p)} = rest
    BY <1>4
  <2>3. [node EXCEPT !.size = new] = changed
    <3> HIDE DEF node, new, old
    <3> QED BY <1>1 DEF old
  <2> HIDE DEF rest, changed, other
  <2> QED BY <2>1, <2>2, <2>3
<1>6. path \in rest
  <2>1. ~(Len(lost) <= Len(path))
    BY <1>3
  <2> QED BY <2>1 DEF Under
<1>7. /\ DOMAIN other = rest /\ other[path] = changed
      /\ \A p \in rest : p # path => other[p] = tree[p]
  <2> HIDE DEF rest, changed, other
  <2> QED BY <1>5, <1>6
<1> HIDE DEF other
<1>8. \A p \in rest : other[p].class = tree[p].class
  BY <1>7
(* What is left is looked at as before.                                    *)
<1>9. ASSUME NEW p \in rest PROVE p \in Looked(other) <=> p \in Looked(tree)
  <2>1. ASSUME NEW n \in DOMAIN p
        PROVE  other[SubSeq(p, 1, n - 1)].class = tree[SubSeq(p, 1, n - 1)].class
    <3> DEFINE above == SubSeq(p, 1, n - 1)
    <3>1. p \in Seq(Steps) /\ Len(p) \in Nat /\ n \in 1..Len(p) /\ n - 1 \in 0..Len(p)
          /\ n - 1 <= Len(p)
      <4>1. p \in Seq(Steps) /\ Len(p) \in Nat /\ n \in 1..Len(p)
        BY PathsOfTree, LenProperties
      <4> QED BY <4>1
    <3>2. above \in DOMAIN tree /\ above \in Seq(Steps) /\ Len(above) = n - 1
      BY <3>1, PathsOfTree, Prefix
    <3>3. Under(above, p)
      BY <3>1, <3>2 DEF Under
    <3>4. ~Under(lost, above)
      BY <1>3, <3>1, <3>2, <3>3, UnderUnder
    <3> QED BY <1>8, <3>2, <3>4
  <2>2. p \in DOMAIN tree /\ p \in DOMAIN other
    BY <1>7
  <2> QED BY <2>1, <2>2 DEF Looked, Reached
<1>10. ASSUME ~(path \in Looked(tree) /\ member \in Compared(node.class)),
              NEW p \in DOMAIN tree, Under(lost, p)
       PROVE  p \notin Looked(tree)
  <2> SUFFICES ASSUME p \in Looked(tree) PROVE FALSE
    OBVIOUS
  <2>1. p \in Seq(Steps) /\ Len(p) \in Nat /\ DOMAIN p = 1..Len(p)
        /\ DOMAIN path = 1..Len(path)
    BY <1>3, PathsOfTree, LenProperties
  <2>2. /\ Len(path) + 1 <= Len(p) /\ SubSeq(p, 1, Len(lost)) = lost
        /\ Len(path) + 1 \in DOMAIN p /\ (Len(path) + 1) - 1 = Len(path)
        /\ Len(lost) \in 0..Len(p) /\ Len(path) \in 0..Len(lost) /\ Len(path) \in 0..Len(p)
    BY <1>3, <1>10, <2>1 DEF Under
  <2>3. SubSeq(lost, 1, Len(path)) = path
    BY <1>3, <2>2 DEF Parent
  <2>4. SubSeq(p, 1, Len(path)) = path
    BY <2>1, <2>2, <2>3, PrefixOfPrefix
  <2>5. \A n \in DOMAIN p : p[n][1] \in Compared(tree[SubSeq(p, 1, n - 1)].class)
    BY DEF Looked, Reached
  <2>6. p[Len(path) + 1][1] = member
    <3>1. lost[Len(lost)] = p[Len(lost)]
      <4>1. Len(lost) \in 1..Len(lost)
        BY <1>3
      <4> QED BY <2>1, <2>2, <4>1, Prefix
    <3> QED BY <1>3, <3>1 DEF Member
  <2>7. member \in Compared(node.class)
    BY <2>2, <2>4, <2>5, <2>6
  <2>8. \A n \in DOMAIN path : path[n][1] \in Compared(tree[SubSeq(path, 1, n - 1)].class)
    <3> SUFFICES ASSUME NEW n \in DOMAIN path
                 PROVE  path[n][1] \in Compared(tree[SubSeq(path, 1, n - 1)].class)
      OBVIOUS
    <3>1. n \in DOMAIN p /\ n \in 1..Len(path) /\ n - 1 \in 0..Len(path)
      BY <1>3, <2>1, <2>2
    <3>2. path[n] = p[n] /\ SubSeq(path, 1, n - 1) = SubSeq(p, 1, n - 1)
      BY <2>1, <2>2, <2>4, <3>1, Prefix, PrefixOfPrefix
    <3> QED BY <2>5, <3>1, <3>2
  <2>9. path \in Looked(tree)
    BY <2>8 DEF Looked, Reached
  <2> QED BY <1>10, <2>7, <2>9
<1>11. \A p \in rest : p # path => NodeKept(other, p) = NodeKept(tree, p)
  BY <1>7 DEF NodeKept
<1>12. NodeKept(tree, path) = NodeKept(other, path) <=> member \notin Compared(node.class)
  <2> DEFINE kept == Compared(node.class)
             a == [m \in DOMAIN old \cap kept |-> old[m]]
             b == [m \in DOMAIN new \cap kept |-> new[m]]
             d == [m \in DOMAIN node.datum \cap kept |-> node.datum[m]]
  <2>1. /\ NodeKept(tree, path) = [class |-> node.class, size |-> a, datum |-> d]
        /\ NodeKept(other, path) = [class |-> node.class, size |-> b, datum |-> d]
    BY <1>7 DEF NodeKept
  <2>2. /\ DOMAIN new = DOMAIN old /\ new[member] = latest - 1 /\ new[member] # old[member]
        /\ member \in DOMAIN old
        /\ \A m \in DOMAIN old : m # member => new[m] = old[m]
    <3> HIDE DEF old, member
    <3> QED BY <1>1, <1>2
  <2> HIDE DEF old, new, kept, node, member
  <2>3. CASE member \in kept
    <3>1. a[member] = old[member] /\ b[member] = new[member]
      BY <2>2, <2>3
    <3>2. a # b
      BY <2>2, <3>1
    <3> HIDE DEF a, b, d
    <3>3. NodeKept(tree, path) # NodeKept(other, path)
      BY <2>1, <3>2
    <3> QED BY <2>3, <3>3 DEF kept
  <2>4. CASE member \notin kept
    <3>1. a = b
      BY <2>2, <2>4
    <3> HIDE DEF a, b, d
    <3> QED BY <2>1, <2>4, <3>1 DEF kept
  <2> QED BY <2>3, <2>4
<1>13. Equal(tree, other) <=> ~(path \in Looked(tree) /\ member \in Compared(node.class))
  <2>1. \A p \in Looked(tree) : p \in DOMAIN tree
    BY DEF Looked, Reached
  <2>2. \A p \in Looked(other) : p \in rest
    BY <1>7 DEF Looked, Reached
  <2> HIDE DEF node, member
  <2>3. CASE path \in Looked(tree) /\ member \in Compared(node.class)
    BY <1>12, <2>3, EqualIs
  <2>4. CASE ~(path \in Looked(tree) /\ member \in Compared(node.class))
    <3>1. \A p \in Looked(tree) : p \in rest
      BY <1>10, <2>1, <2>4
    <3>2. Looked(tree) = Looked(other)
      BY <1>9, <2>2, <3>1
    <3>3. \A p \in Looked(tree) : NodeKept(tree, p) = NodeKept(other, p)
      BY <1>11, <1>12, <2>4, <3>1
    <3> QED BY <2>4, <3>2, <3>3, EqualIs
  <2> QED BY <2>3, <2>4
<1>14. Below(tree, path, member) \cap Ignored # {}
         <=> ~(path \in Looked(tree) /\ member \in Compared(node.class))
  BY <1>1, BelowIs
<1> QED BY <1>13, <1>14 DEF other

(* At least one child at most is asked of an operand.                      *)
LEMMA LeastIs ==
    ASSUME NEW c \in DOMAIN Class, NEW f \in Operands(c)
    PROVE  f.least \in {0, 1}
BY TablesExact DEF Exact, LeastExact

(* Whatever tree the grammar can build: clone() gives the same tree, and   *)
(* operator== sees every change of one datum and every child less, except  *)
(* in supplemental members - and in the two that apply and table_reference *)
(* forget, where it sees none.                                             *)
THEOREM CopiesRight == PipelineSpec => []CopiesExact
<1>1. PipelineInv => CopiesExact
  <2> SUFFICES ASSUME PipelineInv, stage = "check" PROVE CopiesExact
    BY DEF CopiesExact
  <2>1. IsTree(unit)
    BY DEF PipelineInv
  <2>2. Copy(unit) = unit
    BY <2>1, CopyIs
  <2>3. ASSUME NEW path \in DOMAIN unit, NEW f \in Operands(unit[path].class),
               unit[path].size[f.name] > f.least
        PROVE  Equal(unit, WithoutLast(unit, path, f.name))
                  <=> Below(unit, path, f.name) \cap Ignored # {}
    <3>1. f.least \in {0, 1} /\ unit[path].size[f.name] \in Nat
      BY <2>1, LeastIs DEF IsTree, IsNode, OperandNames
    <3>2. unit[path].size[f.name] > 0
      BY <2>3, <3>1
    <3> QED BY <2>1, <3>2, WithoutLastIs
  <2>4. ChangesSeen(unit, Ignored)
    BY <2>1, <2>3, ChangedDatumIs DEF ChangesSeen
  <2> QED BY <2>2, <2>4 DEF CopiesExact
<1>2. PipelineSpec => []PipelineInv
  BY WalkRight
<1> QED BY <1>1, <1>2, PTL

-----------------------------------------------------------------------------
(* A call takes the steps of the scanner and the driver, and no other step *)
(* changes what they keep.                                                 *)
THEOREM ScannerRuns == PipelineSpec => Spec
<1>1. PipelineInit => Init
  BY DEF PipelineInit
<1>2. [PipelineNext]_all => [Next]_vars
  <2> SUFFICES ASSUME [PipelineNext]_all PROVE [Next]_vars
    OBVIOUS
  <2>1. CASE Scan
    BY <2>1 DEF Scan
  <2>2. CASE SyntaxError
    BY <2>2 DEF SyntaxError, Refuse
  <2>3. CASE ListError
    BY <2>3 DEF ListError, Refuse
  <2>4. CASE Success
    BY <2>4 DEF Success
  <2>5. CASE Validate
    BY <2>5 DEF Validate
  <2>6. CASE Walk
    BY <2>6 DEF Walk
  <2>7. CASE Finish
    BY <2>7 DEF Finish
  <2>8. CASE UNCHANGED all
    BY <2>8 DEF all
  <2> QED BY <2>1, <2>2, <2>3, <2>4, <2>5, <2>6, <2>7, <2>8 DEF PipelineNext
<1> QED BY <1>1, <1>2, PTL DEF PipelineSpec, Spec

(* So the comments and the placeholders are found when the grammar asks    *)
(* for them and ever after: in the tree that is checked and walked.        *)
THEOREM CommentsStayFound == PipelineSpec => [](CommentsExact /\ PlaceholdersNumbered)
BY ScannerRuns, CommentsFound, PlaceholdersFound, PTL

=============================================================================
