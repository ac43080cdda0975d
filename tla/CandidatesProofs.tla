-------------------------- MODULE CandidatesProofs --------------------------
(***************************************************************************)
(* Safety of Candidates for every set of ads and rows.  The invariant says *)
(* what the lists of a request are made of (ListInv), that what was taken  *)
(* when the request arrived is still taken (TakenInv), and that a fitting  *)
(* row is left out only if it was taken or the listing is full (ShownInv). *)
(***************************************************************************)
EXTENDS Candidates, FiniteSetTheorems, TLAPS

ListInv ==
    /\ req.pc \in {"list", "exclude"} => req.ad # NoAd
    /\ req.pc # "done" => req.excluded = {}
    /\ \A t \in req.listed : InWindow(t, req.ad)

TakenInv ==
    /\ \A t \in req.gone : t \in ignored \/ pointer[t] # NoAd
    /\ req.closed \subseteq confirmed
    /\ req.todo \intersect req.closed = {}

IInv == TypeOK /\ ListInv /\ PopupListsOnce /\ TakenInv /\ TakenIsNotOffered

-----------------------------------------------------------------------------
\* The first n of a finite set are at most n of its elements.
LEMMA TopsAreFew ==
  ASSUME NEW S, IsFiniteSet(S), NEW n \in Nat, NEW value, NEW L \in Tops(S, n, value)
  PROVE  L \subseteq S /\ IsFiniteSet(L) /\ Cardinality(L) \in Nat /\ Cardinality(L) <= n
<1>1. L \subseteq S /\ Cardinality(L) = IF Cardinality(S) < n THEN Cardinality(S) ELSE n
  BY DEF Tops
<1>2. Cardinality(S) \in Nat
  BY FS_CardinalityType
<1>3. IsFiniteSet(L)
  BY <1>1, FS_Subset
<1>. QED  BY <1>1, <1>2, <1>3

\* Every distance in days has a date score.
LEMMA DateScoreIsInt ==
  ASSUME NEW n \in Nat
  PROVE  DateScore(n) \in Int /\ DateScore(n) >= 0
<1>1. CASE n \in 0 .. 3
  <2>1. n = 0 \/ n = 1 \/ n = 2 \/ n = 3
    BY <1>1
  <2>2. <<100, 85, 65, 40>>[n + 1] \in {100, 85, 65, 40}
    BY <2>1
  <2>. QED  BY <1>1, <2>2 DEF DateScore
<1>2. CASE n > 3
  BY <1>2 DEF DateScore
<1>. QED  BY <1>1, <1>2

\* A row inside the window of an ad has a score.
LEMMA ScoreIsInt ==
  ASSUME NEW t \in Txns, NEW a \in Ads, InWindow(t, a), TypeOK
  PROVE  ScoreOf(t, a) \in Int
<1>. USE CandidatesAssumption
<1>1. Ad[a].amount \in Nat \union {NoAmount} /\ Ad[a].day \in Int
  BY DEF InWindow
<1>2. Row[t].amount \in Nat /\ Row[t].day \in Int /\ Row[t].string \in Strings
  OBVIOUS
<1>3. DateScore(Abs(Row[t].day - Ad[a].day)) \in Int
  <2>1. Abs(Row[t].day - Ad[a].day) \in Nat
    BY <1>1, <1>2 DEF Abs
  <2>. QED  BY <2>1, DateScoreIsInt
<1>4. ASSUME NEW e \in Nat PROVE AmountScore(Row[t].amount, e) \in Int
  BY <1>2 DEF AmountScore, Bucket
<1>5. Vendor[t][a] \in Int
  <2>1. Vendor[t] \in [Ads -> 0 .. 100]
    OBVIOUS
  <2>2. Vendor[t][a] \in 0 .. 100
    BY <2>1
  <2>. QED  BY <2>2
<1>6. Boost(t, a) \in Int
  BY <1>2 DEF TypeOK, Boost, Marks
<1>7. Base(t, a) \in Int
  <2>1. CASE Ad[a].amount = NoAmount
    BY <2>1, <1>3, <1>5 DEF Base, Weighted
  <2>2. CASE Ad[a].amount # NoAmount
    BY <2>2, <1>1, <1>3, <1>4, <1>5 DEF Base, Weighted
  <2>. QED  BY <2>1, <2>2
<1>. QED  BY <1>6, <1>7 DEF ScoreOf, Boosted, Perfect

\* A listing consists of free rows inside the window.
LEMMA ListingsAreFree ==
  ASSUME NEW a \in Ads, NEW L \in Listings(a), TypeOK
  PROVE  /\ L \subseteq Txns /\ IsFiniteSet(L)
         /\ Cardinality(L) \in Nat /\ Cardinality(L) <= TopN
         /\ \A t \in L : t \in Free /\ InWindow(t, a)
<1>1. Eligible(a) \subseteq Txns /\ \A t \in Eligible(a) : t \in Free /\ InWindow(t, a)
  BY DEF Eligible, Free, TypeOK
<1>2. IsFiniteSet(Eligible(a))
  BY <1>1, FS_Subset, CandidatesAssumption
<1>. QED  BY <1>1, <1>2, TopsAreFew, CandidatesAssumption DEF Listings

\* What RankAd adds is a row of the listing for the ad.
LEMMA SuggestionsAreItems ==
  ASSUME NEW a \in Ads, NEW L \in Listings(a), TypeOK, NEW i \in Suggestions(a, L)
  PROVE  i \in Items /\ i.ad = a /\ i.txn \in L
<1>. DEFINE Q == {t \in L : ScoreOf(t, a) >= MinScore}
<1>1. PICK t \in Q : i = [ad |-> a, txn |-> t, score |-> ScoreOf(t, a),
                          alts |-> Cardinality(Q) - 1]
  BY DEF Suggestions
<1>2. /\ L \subseteq Txns /\ IsFiniteSet(L)
      /\ Cardinality(L) \in Nat /\ Cardinality(L) <= TopN
      /\ \A u \in L : InWindow(u, a)
  BY ListingsAreFree
<1>3. IsFiniteSet(Q) /\ Cardinality(Q) <= Cardinality(L)
  BY <1>2, FS_Subset
<1>4. Cardinality(Q) \in Nat /\ Cardinality(Q) # 0
  BY <1>1, <1>3, FS_CardinalityType, FS_EmptySet
<1>5. Cardinality(Q) - 1 \in 0 .. TopN - 1
  BY <1>2, <1>3, <1>4, CandidatesAssumption
<1>6. ScoreOf(t, a) \in Int
  BY <1>2, ScoreIsInt
<1>. QED  BY <1>1, <1>2, <1>5, <1>6 DEF Items

-----------------------------------------------------------------------------
\* The starting point: no request, nothing taken.
THEOREM InitIInv == Init => IInv
<1>. SUFFICES ASSUME Init PROVE IInv
  OBVIOUS
<1>1. Cardinality({}) = 0
  BY FS_EmptySet
<1>2. req = Idle
  BY DEF Init
<1>3. TypeOK
  BY <1>1, <1>2, CandidatesAssumption DEF Init, TypeOK, Requests, Idle, Marks
<1>. QED  BY <1>2, <1>3 DEF IInv, ListInv, TakenInv, PopupListsOnce, TakenIsNotOffered, Idle

\* The other writers change no list, and take rows and ads for good.
LEMMA WritersKeepIInv ==
  ASSUME IInv, Writers
  PROVE  IInv'
<1>1. req' = req /\ faults' = faults
  BY DEF Writers, Ingest, Backfill, Confirm, Register
<1>2. TypeOK'
  <2>1. ASSUME NEW t \in Txns, Ingest(t) PROVE TypeOK'
    BY <2>1 DEF IInv, TypeOK, Requests, Ingest
  <2>2. CASE Backfill
    BY <2>2 DEF IInv, TypeOK, Requests, Backfill
  <2>3. ASSUME NEW a \in Ads, NEW t \in Txns, Confirm(a, t) PROVE TypeOK'
    BY <2>3 DEF IInv, TypeOK, Requests, Confirm
  <2>4. ASSUME NEW s \in Strings, NEW v \in Marks, Register(s, v) PROVE TypeOK'
    BY <2>4 DEF IInv, TypeOK, Requests, Register
  <2>. QED  BY <2>1, <2>2, <2>3, <2>4 DEF Writers
<1>3. ListInv' /\ PopupListsOnce' /\ TakenIsNotOffered'
  BY <1>1 DEF IInv, ListInv, InWindow, PopupListsOnce, TakenIsNotOffered
<1>4. /\ ignored \subseteq ignored' /\ confirmed \subseteq confirmed'
      /\ \A t \in Txns : pointer[t] # NoAd => pointer'[t] # NoAd
  BY CandidatesAssumption DEF IInv, TypeOK, Requests, Writers, Ingest, Backfill, Confirm, Register
<1>5. TakenInv'
  BY <1>1, <1>4 DEF IInv, TypeOK, Requests, TakenInv
<1>. QED  BY <1>2, <1>3, <1>5 DEF IInv

\* A new request starts with empty lists and notes what is taken.
LEMMA OpeningKeepsIInv ==
  ASSUME IInv, (\E a \in Ads : OpenPopup(a)) \/ OpenPage
  PROVE  IInv'
<1>. DEFINE gone == {t \in rows : pointer[t] # NoAd} \union ignored
<1>1. UNCHANGED <<bankVars, faults>>
  BY DEF OpenPopup, OpenPage
<1>2. Cardinality({}) = 0
  BY FS_EmptySet
<1>3. /\ gone \subseteq Txns /\ confirmed \subseteq Ads
      /\ Unconfirmed \subseteq Ads /\ Unconfirmed \intersect confirmed = {}
  BY DEF IInv, TypeOK, Requests, Unconfirmed
<1>4. ASSUME NEW a \in Ads, OpenPopup(a) PROVE IInv'
  <2>1. PICK m \in BOOLEAN :
           req' = [Idle EXCEPT !.pc = "links", !.ad = a, !.mailed = m, !.gone = gone]
    BY <1>4 DEF OpenPopup, Becomes
  <2>2. TypeOK'
    <3>1. Idle \in Requests
      BY CandidatesAssumption DEF Idle, Requests, Marks
    <3>2. req' \in Requests
      BY <1>3, <2>1, <3>1 DEF Requests
    <3>3. req'.listed = {} /\ req'.excluded = {}
      BY <2>1 DEF Idle
    <3>. QED  BY <1>1, <1>2, <3>2, <3>3, CandidatesAssumption DEF IInv, TypeOK, Requests, bankVars
  <2>3. ListInv' /\ PopupListsOnce' /\ TakenInv' /\ TakenIsNotOffered'
    BY <1>1, <2>1 DEF ListInv, PopupListsOnce, TakenInv, TakenIsNotOffered, Idle, bankVars
  <2>. QED  BY <2>2, <2>3 DEF IInv
<1>5. CASE OpenPage
  <2>1. req' = [Idle EXCEPT !.pc = "links", !.todo = Unconfirmed,
                  !.closed = confirmed, !.gone = gone]
    BY <1>5 DEF OpenPage, Becomes
  <2>2. TypeOK'
    <3>1. Idle \in Requests
      BY CandidatesAssumption DEF Idle, Requests, Marks
    <3>2. req' \in Requests
      BY <1>3, <2>1, <3>1 DEF Requests
    <3>3. req'.listed = {} /\ req'.excluded = {}
      BY <2>1 DEF Idle
    <3>. QED  BY <1>1, <1>2, <3>2, <3>3, CandidatesAssumption DEF IInv, TypeOK, Requests, bankVars
  <2>3. ListInv' /\ PopupListsOnce' /\ TakenInv' /\ TakenIsNotOffered'
    BY <1>1, <1>3, <2>1 DEF ListInv, PopupListsOnce, TakenInv, TakenIsNotOffered, Idle, bankVars
  <2>. QED  BY <2>2, <2>3 DEF IInv
<1>. QED  BY <1>4, <1>5

\* Reading the registry, or failing to, fills no list.
LEMMA LinksKeepIInv ==
  ASSUME IInv, ReadLinks \/ LinksFail
  PROVE  IInv'
<1>1. /\ UNCHANGED bankVars /\ req.pc = "links" /\ faults' \in 0 .. MaxFaults
      /\ \/ req' = [req EXCEPT !.pc = Ranks, !.index = registry]
         \/ req' = [req EXCEPT !.pc = Ranks, !.tx = "failed"]
  BY CandidatesAssumption DEF IInv, TypeOK, Requests, ReadLinks, LinksFail, Becomes, Fault
<1>2. Ranks \in {"list", "rank"} /\ (Ranks = "list" => req.ad # NoAd)
  BY DEF Ranks
<1>3. TypeOK'
  BY <1>1, <1>2 DEF IInv, TypeOK, Requests, bankVars
<1>4. ListInv' /\ PopupListsOnce'
  BY <1>1, <1>2 DEF IInv, TypeOK, Requests, ListInv, PopupListsOnce, InWindow
<1>5. TakenInv' /\ TakenIsNotOffered'
  BY <1>1 DEF IInv, TypeOK, Requests, TakenInv, TakenIsNotOffered, bankVars
<1>. QED  BY <1>3, <1>4, <1>5 DEF IInv

\* The candidates are free rows inside the window; no near miss is known yet.
LEMMA ListKeepsIInv ==
  ASSUME IInv, List
  PROVE  IInv'
<1>1. req.ad \in Ads
  BY DEF IInv, TypeOK, Requests, ListInv, List
<1>2. PICK L \in Listings(req.ad) :
         req' = [req EXCEPT !.pc = "exclude", !.listed = L, !.seen = rows \ ignored]
  BY DEF List, Becomes
<1>3. UNCHANGED <<bankVars, faults>> /\ req.pc = "list"
  BY DEF List
<1>4. /\ L \subseteq Txns /\ Cardinality(L) <= TopN
      /\ \A t \in L : t \in Free /\ InWindow(t, req.ad)
  BY <1>1, ListingsAreFree DEF IInv
<1>5. TypeOK'
  BY <1>2, <1>3, <1>4 DEF IInv, TypeOK, Requests, bankVars
<1>6. ListInv' /\ PopupListsOnce'
  BY <1>1, <1>2, <1>3, <1>4, CandidatesAssumption
     DEF IInv, TypeOK, Requests, ListInv, PopupListsOnce, InWindow
<1>7. TakenInv'
  BY <1>2, <1>3 DEF IInv, TypeOK, Requests, TakenInv, bankVars
<1>8. L \intersect req.gone = {}
  BY <1>4 DEF IInv, TakenInv, Free
<1>9. TakenIsNotOffered'
  BY <1>2, <1>8 DEF IInv, TypeOK, Requests, TakenIsNotOffered
<1>. QED  BY <1>5, <1>6, <1>7, <1>9 DEF IInv

\* A near miss is outside the window, or matched and not a candidate.
LEMMA ExcludeKeepsIInv ==
  ASSUME IInv, Exclude
  PROVE  IInv'
<1>1. PICK E \in Tops(NearMisses(req.ad), Limit, [t \in Txns |-> Row[t].day]) :
         req' = [req EXCEPT !.pc = "done", !.excluded = E]
  BY DEF Exclude, Becomes
<1>2. UNCHANGED <<bankVars, faults>> /\ req.pc = "exclude"
  BY DEF Exclude
<1>3. /\ NearMisses(req.ad) \subseteq Txns
      /\ \A t \in NearMisses(req.ad) : t \notin req.listed \/ ~InWindow(t, req.ad)
  BY DEF IInv, TypeOK, Requests, NearMisses, SeenMatched
<1>4. E \subseteq NearMisses(req.ad) /\ Cardinality(E) <= Limit
  <2>1. IsFiniteSet(NearMisses(req.ad)) /\ Limit \in Nat
    BY <1>3, FS_Subset, CandidatesAssumption
  <2>. QED  BY <2>1, TopsAreFew
<1>5. TypeOK'
  BY <1>1, <1>2, <1>3, <1>4 DEF IInv, TypeOK, Requests, bankVars
<1>6. ListInv'
  BY <1>1 DEF IInv, TypeOK, Requests, ListInv, InWindow
<1>7. PopupListsOnce'
  BY <1>1, <1>3, <1>4 DEF IInv, TypeOK, Requests, ListInv, PopupListsOnce
<1>8. TakenInv' /\ TakenIsNotOffered'
  BY <1>1, <1>2 DEF IInv, TypeOK, Requests, TakenInv, TakenIsNotOffered, bankVars
<1>. QED  BY <1>5, <1>6, <1>7, <1>8 DEF IInv

\* A failed statement ends the request or leaves an ad out.
LEMMA FailuresKeepIInv ==
  ASSUME IInv, ListFails \/ ExcludeFails \/ (\E a \in Ads : RankAdFails(a))
  PROVE  IInv'
<1>1. UNCHANGED bankVars /\ faults' \in 0 .. MaxFaults /\ req.excluded = {}
  <2>1. UNCHANGED bankVars /\ (UNCHANGED faults \/ Fault)
    BY DEF ListFails, ExcludeFails, RankAdFails, SelectFails
  <2>2. faults' \in 0 .. MaxFaults
    BY <2>1, CandidatesAssumption DEF IInv, TypeOK, Fault
  <2>3. req.pc # "done"
    BY DEF ListFails, ExcludeFails, RankAdFails
  <2>. QED  BY <2>1, <2>2, <2>3 DEF IInv, ListInv
<1>2. \/ req' = [req EXCEPT !.pc = "error"]
      \/ req' = [req EXCEPT !.pc = "done"]
      \/ /\ req.pc = "rank"
         /\ \E a \in Ads : req' = [req EXCEPT !.todo = @ \ {a}, !.tx = "failed"]
  BY DEF ListFails, ExcludeFails, RankAdFails, Becomes
<1>3. TypeOK'
  BY <1>1, <1>2 DEF IInv, TypeOK, Requests, bankVars
<1>4. ListInv' /\ PopupListsOnce'
  BY <1>1, <1>2 DEF IInv, TypeOK, Requests, ListInv, PopupListsOnce, InWindow
<1>5. TakenInv' /\ TakenIsNotOffered'
  BY <1>1, <1>2 DEF IInv, TypeOK, Requests, TakenInv, TakenIsNotOffered, bankVars
<1>. QED  BY <1>3, <1>4, <1>5 DEF IInv

\* What is suggested for an ad still on the list is a free row.
LEMMA RankKeepsIInv ==
  ASSUME IInv, NEW a \in Ads, RankAd(a)
  PROVE  IInv'
<1>1. PICK L \in Listings(a) :
         \/ req' = [req EXCEPT !.todo = @ \ {a}]
         \/ \E i \in Suggestions(a, L) :
               req' = [req EXCEPT !.todo = @ \ {a}, !.items = @ \union {i}]
  BY DEF RankAd, Becomes
<1>2. UNCHANGED <<bankVars, faults>> /\ req.pc = "rank" /\ a \in req.todo
  BY DEF RankAd
<1>3. \A t \in L : t \in Free
  BY ListingsAreFree DEF IInv
<1>4. \A i \in Suggestions(a, L) : i \in Items /\ i.ad = a /\ i.txn \in L
  BY SuggestionsAreItems DEF IInv
<1>4a. PICK I \in SUBSET Suggestions(a, L) :
         req' = [req EXCEPT !.todo = @ \ {a}, !.items = @ \union I]
  <2>1. CASE req' = [req EXCEPT !.todo = @ \ {a}]
    <3>1. req' = [req EXCEPT !.todo = @ \ {a}, !.items = @ \union {}]
      BY <2>1 DEF IInv, TypeOK, Requests
    <3>. QED  BY <3>1
  <2>2. ASSUME NEW i \in Suggestions(a, L),
               req' = [req EXCEPT !.todo = @ \ {a}, !.items = @ \union {i}]
        PROVE  \E I \in SUBSET Suggestions(a, L) :
                  req' = [req EXCEPT !.todo = @ \ {a}, !.items = @ \union I]
    BY <2>2
  <2>. QED  BY <1>1, <2>1, <2>2
<1>5. TypeOK'
  <2>1. I \subseteq Items
    BY <1>4
  <2>2. req' \in Requests
    BY <1>4a, <2>1 DEF IInv, TypeOK, Requests
  <2>3. req'.listed = req.listed /\ req'.excluded = req.excluded
    BY <1>4a DEF IInv, TypeOK, Requests
  <2>. QED  BY <1>2, <2>2, <2>3 DEF IInv, TypeOK, bankVars
<1>6. ListInv' /\ PopupListsOnce'
  BY <1>1, <1>2 DEF IInv, TypeOK, Requests, ListInv, PopupListsOnce, InWindow
<1>7. TakenInv'
  BY <1>1, <1>2 DEF IInv, TypeOK, Requests, TakenInv, bankVars
<1>8. L \intersect req.gone = {} /\ a \notin req.closed
  BY <1>2, <1>3 DEF IInv, TakenInv, Free
<1>9. TakenIsNotOffered'
  BY <1>4a, <1>4, <1>8 DEF IInv, TypeOK, Requests, TakenIsNotOffered
<1>. QED  BY <1>5, <1>6, <1>7, <1>9 DEF IInv

\* The page keeps some of its suggestions; a closed request keeps nothing.
LEMMA EndingKeepsIInv ==
  ASSUME IInv, EndPage \/ Close
  PROVE  IInv'
<1>1. UNCHANGED <<bankVars, faults>>
  BY DEF EndPage, Close
<1>2. CASE EndPage
  <2>1. PICK I \in SUBSET req.items : req' = [req EXCEPT !.pc = "done", !.items = I]
    BY <1>2 DEF EndPage, Becomes, Tops
  <2>2. TypeOK'
    BY <1>1, <2>1 DEF IInv, TypeOK, Requests, bankVars
  <2>3. ListInv' /\ PopupListsOnce'
    BY <2>1 DEF IInv, TypeOK, Requests, ListInv, PopupListsOnce, InWindow
  <2>4. TakenInv' /\ TakenIsNotOffered'
    BY <1>1, <2>1 DEF IInv, TypeOK, Requests, TakenInv, TakenIsNotOffered, bankVars
  <2>. QED  BY <2>2, <2>3, <2>4 DEF IInv
<1>3. CASE Close
  <2>1. req' = Idle /\ Cardinality({}) = 0
    BY <1>3, FS_EmptySet DEF Close, Becomes
  <2>2. TypeOK'
    <3>1. Idle \in Requests /\ Idle.listed = {} /\ Idle.excluded = {}
      BY CandidatesAssumption DEF Idle, Requests, Marks
    <3>. QED  BY <1>1, <2>1, <3>1, CandidatesAssumption DEF IInv, TypeOK, Requests, bankVars
  <2>3. ListInv' /\ PopupListsOnce' /\ TakenInv' /\ TakenIsNotOffered'
    BY <2>1 DEF ListInv, PopupListsOnce, TakenInv, TakenIsNotOffered, Idle
  <2>. QED  BY <2>2, <2>3 DEF IInv
<1>. QED  BY <1>2, <1>3

-----------------------------------------------------------------------------
\* The invariant is inductive.
THEOREM IInvAlways == Spec => []IInv
<1>1. IInv /\ [Next]_vars => IInv'
  <2>. SUFFICES ASSUME IInv, [Next]_vars PROVE IInv'
    OBVIOUS
  <2>1. CASE Writers
    BY <2>1, WritersKeepIInv
  <2>2. CASE Popup
    BY <2>2, OpeningKeepsIInv, ListKeepsIInv, ExcludeKeepsIInv, FailuresKeepIInv DEF Popup
  <2>3. CASE Page
    BY <2>3, OpeningKeepsIInv, RankKeepsIInv, FailuresKeepIInv, EndingKeepsIInv DEF Page
  <2>4. CASE ReadLinks \/ LinksFail
    BY <2>4, LinksKeepIInv
  <2>5. CASE Close
    BY <2>5, EndingKeepsIInv
  <2>6. CASE UNCHANGED vars
    BY <2>6 DEF vars, IInv, TypeOK, ListInv, PopupListsOnce, TakenInv,
                TakenIsNotOffered, InWindow
  <2>. QED  BY <2>1, <2>2, <2>3, <2>4, <2>5, <2>6 DEF Next
<1>. QED  BY <1>1, InitIInv, PTL DEF Spec

\* The types hold, the bounds of the three lists with them.
THEOREM TypeCorrect == Spec => []TypeOK
BY IInvAlways, PTL DEF IInv

\* No popup lists a row as a candidate and as excluded, whatever is confirmed
\* between its two queries.
THEOREM AlwaysListsOnce == Spec => []PopupListsOnce
BY IInvAlways, PTL DEF IInv

\* The consumed-exclusion invariant, for the popup and for the page.
THEOREM NeverOffersTaken == Spec => []TakenIsNotOffered
BY IInvAlways, PTL DEF IInv
-----------------------------------------------------------------------------
(* Nothing plausible is hidden: what the listing left out was taken, or    *)
(* the listing is full.                                                    *)

Fits(t, a) == Ad[a].amount # NoAmount /\ Plausible(Row[t].amount, Ad[a].amount)

ShownInv ==
    req.pc = "exclude" =>
        /\ req.seen \subseteq rows
        /\ \A t \in req.seen \ ignored :
              Fits(t, req.ad) /\ InWindow(t, req.ad) =>
                 \/ t \in req.listed \/ Cardinality(req.listed) = TopN
                 \/ pointer[t] # NoAd

\* What is not among the first n was cut off: there are n others.
LEMMA CutOnlyWhenFull ==
  ASSUME NEW S, IsFiniteSet(S), NEW n \in Nat, NEW value, NEW L \in Tops(S, n, value),
         NEW x \in S, x \notin L
  PROVE  Cardinality(L) = n
<1>1. L \subseteq S /\ Cardinality(L) = IF Cardinality(S) < n THEN Cardinality(S) ELSE n
  BY DEF Tops
<1>2. Cardinality(S) # Cardinality(L)
  BY <1>1, FS_Subset
<1>. QED  BY <1>1, <1>2

\* No weight and no boost hides a fitting amount from the candidates.
LEMMA FittingIsEligible ==
  ASSUME NEW t \in Txns, NEW a \in Ads, Fits(t, a), InWindow(t, a), t \in Free, TypeOK
  PROVE  t \in Eligible(a)
<1>. USE CandidatesAssumption
<1>1. /\ Ad[a].amount \in Nat /\ Ad[a].day \in Int
      /\ Row[t].amount \in Nat /\ Row[t].day \in Int /\ Row[t].string \in Strings
  BY DEF InWindow, Fits
<1>2. AmountScore(Row[t].amount, Ad[a].amount) \in {95, 100}
  BY DEF Fits, Plausible, AmountScore
<1>3. /\ DateScore(Abs(Row[t].day - Ad[a].day)) \in Int
      /\ DateScore(Abs(Row[t].day - Ad[a].day)) >= 0
  <2>1. Abs(Row[t].day - Ad[a].day) \in Nat
    BY <1>1 DEF Abs
  <2>. QED  BY <2>1, DateScoreIsInt
<1>4. Vendor[t][a] \in 0 .. 100
  <2>1. Vendor[t] \in [Ads -> 0 .. 100]
    OBVIOUS
  <2>. QED  BY <2>1
<1>5. Boost(t, a) \in {0, 300, 1500, 2000}
  BY <1>1 DEF TypeOK, Boost, Marks
<1>6. Base(t, a) \in Int /\ Base(t, a) >= 4750
  BY <1>2, <1>3, <1>4 DEF Base, Weighted, Fits
<1>7. ScoreOf(t, a) > Threshold
  BY <1>5, <1>6 DEF ScoreOf, Boosted, Perfect, Threshold
<1>. QED  BY <1>7 DEF Eligible

\* A confirm or a pattern in between takes a row, and never brings one.
LEMMA NextShown == IInv /\ ShownInv /\ [Next]_vars => ShownInv'
<1>. SUFFICES ASSUME IInv, ShownInv, [Next]_vars, req'.pc = "exclude"
              PROVE  ShownInv'
  BY DEF ShownInv
<1>1. CASE List
  <2>1. req.ad \in Ads
    BY <1>1 DEF IInv, TypeOK, Requests, ListInv, List
  <2>2. PICK L \in Listings(req.ad) :
           req' = [req EXCEPT !.pc = "exclude", !.listed = L, !.seen = rows \ ignored]
    BY <1>1 DEF List, Becomes
  <2>3. /\ req'.seen = rows \ ignored /\ req'.listed = L /\ req'.ad = req.ad
        /\ UNCHANGED bankVars /\ rows \subseteq Txns
    BY <1>1, <2>2 DEF List, IInv, TypeOK, Requests
  <2>4. IsFiniteSet(Eligible(req.ad))
    BY <2>3, FS_Subset, CandidatesAssumption DEF Eligible, Free
  <2>5. ASSUME NEW t \in rows \ ignored, Fits(t, req.ad), InWindow(t, req.ad),
               pointer[t] = NoAd, t \notin L
        PROVE  Cardinality(L) = TopN
    <3>1. t \in Eligible(req.ad)
      BY <2>1, <2>3, <2>5, FittingIsEligible DEF IInv, Free
    <3>. QED  BY <2>4, <2>5, <3>1, CutOnlyWhenFull, CandidatesAssumption DEF Listings
  <2>. QED  BY <2>2, <2>3, <2>5 DEF ShownInv, bankVars, Fits, InWindow
<1>2. CASE Writers
  <2>1. req' = req
    BY <1>2 DEF Writers, Ingest, Backfill, Confirm, Register
  <2>2. /\ rows \subseteq rows' /\ ignored \subseteq ignored'
        /\ \A t \in Txns : pointer[t] # NoAd => pointer'[t] # NoAd
    BY <1>2, CandidatesAssumption
       DEF IInv, TypeOK, Writers, Ingest, Backfill, Confirm, Register
  <2>. QED  BY <2>1, <2>2 DEF ShownInv, Fits, InWindow, IInv, TypeOK
<1>3. CASE UNCHANGED vars
  BY <1>3 DEF ShownInv, vars, Fits, InWindow
<1>4. CASE Popup /\ ~List
  BY <1>4 DEF Popup, OpenPopup, ListFails, Exclude, ExcludeFails, Becomes, Idle,
              IInv, TypeOK, Requests
<1>5. CASE Page
  BY <1>5 DEF Page, OpenPage, RankAd, RankAdFails, EndPage, Becomes, Idle,
              IInv, TypeOK, Requests
<1>6. CASE ReadLinks \/ LinksFail \/ Close
  <2>1. \/ req' = [req EXCEPT !.pc = Ranks, !.index = registry]
        \/ req' = [req EXCEPT !.pc = Ranks, !.tx = "failed"]
        \/ req' = Idle
    BY <1>6 DEF ReadLinks, LinksFail, Close, Becomes
  <2>2. Ranks # "exclude"
    BY DEF Ranks
  <2>3. req \in Requests
    BY DEF IInv, TypeOK
  <2>4. req' = Idle \/ req'.pc = Ranks
    BY <2>1, <2>3 DEF Requests
  <2>. QED  BY <2>2, <2>4 DEF Idle
<1>. QED  BY <1>1, <1>2, <1>3, <1>4, <1>5, <1>6 DEF Next

\* A confirm between the two queries moves a row and does not hide it.
THEOREM AlwaysShown == Spec => PlausibleIsShown
<1>1. Init => ShownInv
  BY DEF Init, ShownInv, Idle
<1>2. IInv /\ ShownInv /\ [Next]_vars =>
        [req.pc = "exclude" /\ req'.pc = "done" /\ faults' = faults =>
          \A t \in req.seen \ ignored :
             (/\ Ad[req.ad].amount # NoAmount
              /\ Plausible(Row[t].amount, Ad[req.ad].amount)
              /\ InOuterWindow(t, req.ad)) =>
                \/ t \in req.listed \union req'.excluded
                \/ Cardinality(req.listed) = TopN
                \/ Cardinality(req'.excluded) = Limit]_vars
  <2>. SUFFICES ASSUME IInv, ShownInv, [Next]_vars,
                       req.pc = "exclude", req'.pc = "done", faults' = faults,
                       NEW t \in req.seen \ ignored,
                       Fits(t, req.ad), InOuterWindow(t, req.ad),
                       t \notin req.listed, Cardinality(req.listed) # TopN
                PROVE  t \in req'.excluded \/ Cardinality(req'.excluded) = Limit
    BY DEF Fits
  <2>1. Exclude
    <3>1. req' # req /\ faults \in Nat
      BY CandidatesAssumption DEF IInv, TypeOK
    <3>2. ~Writers
      BY <3>1 DEF Writers, Ingest, Backfill, Confirm, Register
    <3>. QED
      BY <3>1, <3>2 DEF Next, Popup, Page, OpenPopup, List, ListFails, ExcludeFails, Fault,
            OpenPage, RankAd, RankAdFails, EndPage, ReadLinks, LinksFail, Close, vars
  <2>2. PICK E \in Tops(NearMisses(req.ad), Limit, [u \in Txns |-> Row[u].day]) :
           req' = [req EXCEPT !.pc = "done", !.excluded = E]
    BY <2>1 DEF Exclude, Becomes
  <2>3. req'.excluded = E
    BY <2>2 DEF IInv, TypeOK, Requests
  <2>4. t \in NearMisses(req.ad)
    BY DEF ShownInv, NearMisses, SeenMatched, Fits
  <2>5. IsFiniteSet(NearMisses(req.ad))
    BY FS_Subset, CandidatesAssumption DEF NearMisses, IInv, TypeOK
  <2>. QED  BY <2>3, <2>4, <2>5, CutOnlyWhenFull, CandidatesAssumption
<1>. QED  BY <1>1, <1>2, IInvAlways, NextShown, PTL DEF Spec, PlausibleIsShown

-----------------------------------------------------------------------------
(* The page of suggestions.                                                *)

\* One row of the page for an ad: the other rows that qualify are only counted.
OneSuggestionPerAd == \A i, j \in req.items : i.ad = j.ad => i = j

\* An ad is ranked once, and what is suggested for it was ranked.
PageInv == OneSuggestionPerAd /\ \A i \in req.items : i.ad \notin req.todo

\* The row of an ad enters the page as the ad leaves the list.
LEMMA RankKeepsPage ==
  ASSUME IInv, PageInv, NEW a \in Ads, RankAd(a)
  PROVE  PageInv'
<1>. DEFINE L1 == [req EXCEPT !.todo = @ \ {a}]
<1>1. req \in Requests /\ a \in req.todo
  BY DEF IInv, TypeOK, RankAd
<1>2. CASE req' = L1
  <2>1. req'.items = req.items /\ req'.todo = req.todo \ {a}
    BY <1>1, <1>2 DEF Requests
  <2>. QED  BY <2>1 DEF PageInv, OneSuggestionPerAd
<1>3. ASSUME NEW L \in Listings(a), NEW i \in Suggestions(a, L),
             req' = [req EXCEPT !.todo = @ \ {a}, !.items = @ \union {i}]
      PROVE  PageInv'
  <2>1. req'.items = req.items \union {i} /\ req'.todo = req.todo \ {a}
    BY <1>1, <1>3 DEF Requests
  <2>2. i.ad = a
    BY SuggestionsAreItems DEF IInv
  <2>3. \A j \in req.items : j.ad # a
    BY <1>1 DEF PageInv
  <2>. QED  BY <2>1, <2>2, <2>3 DEF PageInv, OneSuggestionPerAd
<1>4. PICK L \in Listings(a) :
         \/ req' = L1
         \/ \E i \in Suggestions(a, L) :
               req' = [req EXCEPT !.todo = @ \ {a}, !.items = @ \union {i}]
  BY DEF RankAd, Becomes
<1>. QED  BY <1>2, <1>3, <1>4

\* A page never names an ad twice, however long it ranks, whatever is confirmed
\* or ingested meanwhile, and although a failed ad is passed over.
THEOREM OneRowPerAd == Spec => []OneSuggestionPerAd
<1>1. Init => PageInv
  BY DEF Init, PageInv, OneSuggestionPerAd, Idle
<1>2. IInv /\ PageInv /\ [Next]_vars => PageInv'
  <2>. SUFFICES ASSUME IInv, PageInv, [Next]_vars PROVE PageInv'
    OBVIOUS
  <2>0. req \in Requests
    BY DEF IInv, TypeOK
  <2>1. ASSUME req'.items \subseteq req.items, req'.todo \subseteq req.todo PROVE PageInv'
    BY <2>1 DEF PageInv, OneSuggestionPerAd
  <2>2. ASSUME req'.items = {} PROVE PageInv'
    BY <2>2 DEF PageInv, OneSuggestionPerAd
  <2>3. CASE Writers \/ UNCHANGED vars
    BY <2>1, <2>3 DEF Writers, Ingest, Backfill, Confirm, Register, vars
  <2>4. CASE List \/ ListFails \/ Exclude \/ ExcludeFails \/ ReadLinks \/ LinksFail
    BY <2>0, <2>1, <2>4 DEF List, ListFails, Exclude, ExcludeFails, ReadLinks, LinksFail,
                            Becomes, Requests
  <2>5. CASE OpenPage \/ Close \/ \E a \in Ads : OpenPopup(a)
    <3>1. CASE OpenPage
      <4>1. req'.items = Idle.items
        BY <3>1 DEF OpenPage, Becomes, Idle
      <4>. QED  BY <2>2, <4>1 DEF Idle
    <3>2. CASE Close
      BY <2>2, <3>2 DEF Close, Becomes, Idle
    <3>3. ASSUME NEW a \in Ads, OpenPopup(a) PROVE PageInv'
      <4>1. req'.items = Idle.items
        BY <3>3 DEF OpenPopup, Becomes, Idle
      <4>. QED  BY <2>2, <4>1 DEF Idle
    <3>. QED  BY <2>5, <3>1, <3>2, <3>3
  <2>6. ASSUME NEW a \in Ads, RankAdFails(a) PROVE PageInv'
    BY <2>0, <2>1, <2>6 DEF RankAdFails, Becomes, Requests
  <2>7. CASE EndPage
    BY <2>0, <2>1, <2>7 DEF EndPage, Tops, Becomes, Requests
  <2>. QED  BY <2>3, <2>4, <2>5, <2>6, <2>7, RankKeepsPage DEF Next, Popup, Page
<1>. QED  BY <1>1, <1>2, IInvAlways, PTL DEF Spec, PageInv
=============================================================================
