----------------------------- MODULE ResultPage -----------------------------
(***************************************************************************)
(* The page of results that processRequest puts together for a response:   *)
(* the descriptions of the first documents of the match set are copied into*)
(* res, of which the first resLen characters are sent.  A character is     *)
(* named by the document it is from and its place in the description.      *)
(***************************************************************************)
EXTENDS Integers, Sequences, SequencesExt, FiniteSetsExt

CONSTANTS
  Results,      \* the match sets: sequences of the sizes of the descriptions
  MAX_RES_LEN   \* 2^20

MAX_DOC_COUNT == 25

Total(sizes) == FoldSeq(LAMBDA x, y : x + y, 0, sizes)

\* The assertion bounds resLen, not the end of the copy that starts there: the
\* results are ones whose copies stay inside res.
ASSUME ResultPageAssumption ==
  /\ MAX_RES_LEN \in Nat
  /\ \A sizes \in Results :
       /\ sizes \in Seq(Nat \ {0})
       /\ \A i \in DOMAIN sizes : Total(sizes) + sizes[i] <= MAX_RES_LEN

VARIABLES
  progress,             \* "search", "page" or "sent"
  mset, doc,       \* the match set of the query, the document at hand
  res,            \* what has been written, by place
  resLen, doccount

pageVars == <<progress, mset, doc, res, resLen, doccount>>

PageInit ==
  /\ progress = "search" /\ mset = <<>> /\ doc = 1 /\ res = <<>> /\ resLen = 0 /\ doccount = 0

\* get_mset; the page is begun.
Search ==
  /\ progress = "search"
  /\ mset' \in Results
  /\ progress' = "page"
  /\ doc' = 1 /\ res' = <<>> /\ resLen' = 0 /\ doccount' = 0

\* The description of document d, written at place from.
Desc(d, size, from) == [p \in from..(from + size - 1) |-> <<d, p - from>>]

\* An operator whose name ends in _Faulty is the one behind it with a plausible
\* mistake; no specification uses it.
PageFull_Faulty == doccount = MAX_DOC_COUNT
PageFull == doccount + 1 = MAX_DOC_COUNT

\* One round of the loop: resLen has grown before the description is copied.
CopyNext ==
  /\ progress = "page" /\ doc <= Len(mset)
  /\ resLen' = resLen + mset[doc]
  /\ LET copied == Desc(doc, mset[doc], resLen')
     IN res' = [p \in DOMAIN res \cup DOMAIN copied |->
                  IF p \in DOMAIN copied THEN copied[p] ELSE res[p]]
  /\ doccount' = doccount + 1
  /\ doc' = IF PageFull THEN Len(mset) + 1 ELSE doc + 1
  /\ UNCHANGED <<progress, mset>>

Send ==
  /\ progress = "page" /\ doc > Len(mset)
  /\ progress' = "sent"
  /\ UNCHANGED <<mset, doc, res, resLen, doccount>>

NextRequest ==
  /\ progress = "sent"
  /\ progress' = "search"
  /\ UNCHANGED <<mset, doc, res, resLen, doccount>>

PageNext == Search \/ CopyNext \/ Send \/ NextRequest
PageSpec == PageInit /\ [][PageNext]_pageVars
-----------------------------------------------------------------------------
(* Properties.                                                             *)

\* The descriptions that belong on the page, by their sizes.
Page == SubSeq(mset, 1, IF Len(mset) < MAX_DOC_COUNT THEN Len(mset) ELSE MAX_DOC_COUNT)

\* The length of a response is that of the descriptions of at most 25 documents,
\* the first of the match set (the loop of processRequest).
LengthIsTotal == progress = "sent" => resLen = Total(Page) /\ doccount = Len(Page)

\* "up to 25 results per page": the page sent for a query holds each of its
\* results, up to 25 of them, at least in part (the copy of processRequest).
PageHoldsResults ==
  progress = "sent" =>
    \A d \in DOMAIN Page :
      \E p \in DOMAIN res : p < resLen /\ res[p][1] = d
=============================================================================
