----------------------------- MODULE Candidates -----------------------------
(***************************************************************************)
(* The two readers that rank bank rows for an ad (confirmed_ctl/api/       *)
(* routes.py and matching/scorer.py): GET /candidates/<ad>, the popup, and *)
(* GET /suggested, the page of likely pairs.  Each is a sequence of SELECT *)
(* statements in one READ COMMITTED transaction: between two of them the   *)
(* ingest, the backfill, a confirm and the vendor registry may commit.     *)
(*                                                                         *)
(* Readers change nothing another request sees, so one at a time is enough.*)
(* A listing is a set: no ORDER BY decides between rows of equal score.    *)
(***************************************************************************)
EXTENDS Scorer, FiniteSets

CONSTANTS Ads, Txns, Strings, NoAd, NoAmount, NoDay,
          Ad,        \* Ad[a]: the amount (cents) and the day of the charge
          Row,       \* Row[t]: amount, day and merchant string
          Vendor,    \* Vendor[t][a]: what _score_vendor returns, in hundredths
          Sender,    \* Sender[a]: strings of the reps that mailed about a
          Saas,      \* the rows an ignore pattern matches
          Lookback, Lookahead, Margin,   \* days
          TopN, Limit, PageLimit,        \* rows listed, excluded, suggested
          MinScore, MaxFaults

ASSUME CandidatesAssumption ==
    /\ NoAd \notin Ads
    /\ Ad \in [Ads -> [amount : Nat \union {NoAmount}, day : Int \union {NoDay}]]
    /\ Row \in [Txns -> [amount : Nat, day : Int, string : Strings]]
    /\ Vendor \in [Txns -> [Ads -> 0 .. 100]]
    /\ TopN \in Nat \ {0} /\ Limit \in Nat /\ PageLimit \in Nat \ {0}
    /\ Lookback \in Nat /\ Lookahead \in Nat /\ Margin \in Nat
    /\ IsFiniteSet(Txns) /\ MaxFaults \in Nat

VARIABLES
    rows,     \* Postgres: the keys of bank_transactions
    ignored,  \* Postgres: the keys of the rows with ignored
    pointer,  \* Postgres: bank_transactions.confirmed_ad_crm_id
    confirmed,\* Postgres: ad_confirmations.ad_crm_id
    registry, \* Postgres: a string is unknown, catalogued or linked to a rep
    req,      \* the request being served
    faults    \* failed statements so far

bankVars == <<rows, ignored, pointer, confirmed, registry>>
vars     == <<rows, ignored, pointer, confirmed, registry, req, faults>>

Marks == {"unknown", "catalogued", "linked"}

\* tx: Postgres refuses every statement after a failed one.  History: gone
\* and closed are the rows and the ads taken when the request arrived, seen
\* the rows that were neither ignored nor missing when a popup listed.
Idle == [pc |-> "idle", ad |-> NoAd, mailed |-> FALSE, tx |-> "open",
         index |-> [s \in Strings |-> "unknown"],
         listed |-> {}, excluded |-> {}, todo |-> {}, items |-> {},
         gone |-> {}, closed |-> {}, seen |-> {}]

Init ==
    /\ rows \in SUBSET Txns
    /\ ignored = {}
    /\ pointer = [t \in Txns |-> NoAd]
    /\ confirmed = {}
    /\ registry = [s \in Strings |-> "unknown"]
    /\ req = Idle
    /\ faults = 0

Fault == faults < MaxFaults /\ faults' = faults + 1

Becomes(v) == req' = v

-----------------------------------------------------------------------------
(* The other writers, each a committed transaction.                        *)

Ingest(t) ==
    /\ t \notin rows
    /\ rows' = rows \union {t}
    /\ \/ UNCHANGED ignored
       \/ t \in Saas /\ ignored' = ignored \union {t}
    /\ UNCHANGED <<pointer, confirmed, registry, req, faults>>

Backfill ==
    /\ ignored' = ignored \union (rows \intersect Saas)
    /\ UNCHANGED <<rows, pointer, confirmed, registry, req, faults>>

\* What POST /confirm commits; with a row from an old popup it may repoint.
Confirm(a, t) ==
    /\ a \notin confirmed /\ t \in rows
    /\ confirmed' = confirmed \union {a}
    /\ pointer' = [pointer EXCEPT ![t] = a]
    /\ UNCHANGED <<rows, ignored, registry, req, faults>>

\* The vendor map: a string is catalogued or deactivated, a link to a rep
\* is made or removed.
Register(s, v) ==
    /\ registry' = [registry EXCEPT ![s] = v]
    /\ UNCHANGED <<rows, ignored, pointer, confirmed, req, faults>>

-----------------------------------------------------------------------------
(* The ranking.                                                            *)

InWindow(t, a) ==
    /\ Ad[a].day # NoDay
    /\ Row[t].day \in Ad[a].day - Lookback .. Ad[a].day + Lookahead

InOuterWindow(t, a) ==
    /\ Ad[a].day # NoDay
    /\ Row[t].day \in Ad[a].day - Lookback - Margin .. Ad[a].day + Lookahead + Margin

\* VendorLinkIndex.match: linked, linked to a sender too, or catalogued.
Boost(t, a) ==
    LET s == Row[t].string
    IN  CASE req.index[s] = "linked"     -> IF req.mailed /\ s \in Sender[a]
                                            THEN 2000 ELSE 1500
          [] req.index[s] = "catalogued" -> 300
          [] OTHER                       -> 0

\* _score_candidate; an ad without amount still scores on vendor and date.
Base(t, a) ==
    Weighted(IF Ad[a].amount = NoAmount THEN 0
             ELSE AmountScore(Row[t].amount, Ad[a].amount),
             Vendor[t][a], DateScore(Abs(Row[t].day - Ad[a].day)))

ScoreOf(t, a) == Boosted(Base(t, a), Boost(t, a))

\* Mutant: a row that was consumed before is offered again.
Free_Consumed == rows \ ignored

\* "Do not relax this filter."
Free == {t \in rows \ ignored : pointer[t] = NoAd}

Eligible(a) == {t \in Free : InWindow(t, a) /\ ScoreOf(t, a) > Threshold}

\* Mutant: the list is not cut.
Tops_All(S, n, value) == {S}

\* The ways to take the first n of S in descending order of value.
Tops(S, n, value) ==
    {L \in SUBSET S :
        /\ Cardinality(L) = IF Cardinality(S) < n THEN Cardinality(S) ELSE n
        /\ \A x \in L, y \in S \ L : value[x] >= value[y]}

\* What get_candidate_transactions may return.
Listings(a) == Tops(Eligible(a), TopN, [t \in Txns |-> ScoreOf(t, a)])

-----------------------------------------------------------------------------
(* GET /candidates/<ad_crm_id>                                             *)

\* The Gmail search comes first; it may find nothing or fail.
OpenPopup(a) ==
    /\ req.pc = "idle"
    /\ \E m \in BOOLEAN :
          Becomes([Idle EXCEPT !.pc = "links", !.ad = a, !.mailed = m,
                     !.gone = {t \in rows : pointer[t] # NoAd} \union ignored])
    /\ UNCHANGED <<bankVars, faults>>

Ranks == IF req.ad = NoAd THEN "rank" ELSE "list"

\* A SELECT fails of itself, or because one before it did.
SelectFails ==
    \/ req.tx = "failed" /\ UNCHANGED faults
    \/ req.tx = "open" /\ Fault

\* build_vendor_link_index: its SELECTs are one step, because nothing but the
\* boost of a score depends on the index.
ReadLinks ==
    /\ req.pc = "links"
    /\ Becomes([req EXCEPT !.pc = Ranks, !.index = registry])
    /\ UNCHANGED <<bankVars, faults>>

\* The exception is caught and link_index is None: no boost.
LinksFail ==
    /\ req.pc = "links"
    /\ Fault
    /\ Becomes([req EXCEPT !.pc = Ranks, !.tx = "failed"])
    /\ UNCHANGED bankVars

List ==
    /\ req.pc = "list" /\ req.tx = "open"
    /\ \E L \in Listings(req.ad) :
          Becomes([req EXCEPT !.pc = "exclude", !.listed = L,
                     !.seen = rows \ ignored])
    /\ UNCHANGED <<bankVars, faults>>

\* Not caught: 500.
ListFails ==
    /\ req.pc = "list"
    /\ SelectFails
    /\ Becomes([req EXCEPT !.pc = "error"])
    /\ UNCHANGED bankVars

\* Mutant: the second query reads the rows afresh.
SeenMatched_Afresh(t) == pointer[t] # NoAd

\* The session's identity map: a row that the popup already holds keeps the
\* attributes of the first query, in which it was not matched.
SeenMatched(t) == pointer[t] # NoAd /\ t \notin req.listed

\* Mutant: every row inside the window is skipped.
NearMisses_Outside(a) ==
    {t \in rows \ ignored :
        /\ Ad[a].amount # NoAmount /\ Plausible(Row[t].amount, Ad[a].amount)
        /\ InOuterWindow(t, a) /\ ~InWindow(t, a)}

\* get_excluded_transactions before the limit.
NearMisses(a) ==
    {t \in rows \ ignored :
        /\ Ad[a].amount # NoAmount /\ Plausible(Row[t].amount, Ad[a].amount)
        /\ InOuterWindow(t, a)
        /\ SeenMatched(t) \/ ~InWindow(t, a)}

\* The latest rows come first.
Exclude ==
    /\ req.pc = "exclude"
    /\ \E E \in Tops(NearMisses(req.ad), Limit, [t \in Txns |-> Row[t].day]) :
          Becomes([req EXCEPT !.pc = "done", !.excluded = E])
    /\ UNCHANGED <<bankVars, faults>>

\* Caught: the popup has no near misses.
ExcludeFails ==
    /\ req.pc = "exclude"
    /\ Fault
    /\ Becomes([req EXCEPT !.pc = "done"])
    /\ UNCHANGED bankVars

-----------------------------------------------------------------------------
(* GET /suggested                                                          *)

\* Mutant: the ads confirmed already are not subtracted.
Unconfirmed_All == Ads

Unconfirmed == Ads \ confirmed

OpenPage ==
    /\ req.pc = "idle"
    /\ Becomes([Idle EXCEPT !.pc = "links", !.todo = Unconfirmed,
                  !.closed = confirmed,
                  !.gone = {t \in rows : pointer[t] # NoAd} \union ignored])
    /\ UNCHANGED <<bankVars, faults>>

\* The best of the rows that clear min_score, and how many others do.
Suggestions(a, L) ==
    LET qualifying == {t \in L : ScoreOf(t, a) >= MinScore}
    IN  {[ad |-> a, txn |-> t, score |-> ScoreOf(t, a),
          alts |-> Cardinality(qualifying) - 1] :
            t \in {u \in qualifying :
                      \A v \in qualifying : ScoreOf(u, a) >= ScoreOf(v, a)}}

RankAd(a) ==
    /\ req.pc = "rank" /\ req.tx = "open" /\ a \in req.todo
    /\ \E L \in Listings(a) :
          \/ /\ Suggestions(a, L) = {}
             /\ Becomes([req EXCEPT !.todo = @ \ {a}])
          \/ \E i \in Suggestions(a, L) :
                Becomes([req EXCEPT !.todo = @ \ {a}, !.items = @ \union {i}])
    /\ UNCHANGED <<bankVars, faults>>

\* Caught, and the loop goes on: with a transaction that refuses the rest.
RankAdFails(a) ==
    /\ req.pc = "rank" /\ a \in req.todo
    /\ SelectFails
    /\ Becomes([req EXCEPT !.todo = @ \ {a}, !.tx = "failed"])
    /\ UNCHANGED bankVars

EndPage ==
    /\ req.pc = "rank" /\ req.todo = {}
    /\ \E I \in Tops(req.items, PageLimit, [i \in req.items |-> i.score]) :
          Becomes([req EXCEPT !.pc = "done", !.items = I])
    /\ UNCHANGED <<bankVars, faults>>

Close ==
    /\ req.pc \in {"done", "error"}
    /\ Becomes(Idle)
    /\ UNCHANGED <<bankVars, faults>>

-----------------------------------------------------------------------------
Writers ==
    \/ \E t \in Txns : Ingest(t)
    \/ Backfill
    \/ \E a \in Ads, t \in Txns : Confirm(a, t)
    \/ \E s \in Strings, v \in Marks : Register(s, v)

Popup ==
    \/ \E a \in Ads : OpenPopup(a)
    \/ List \/ ListFails \/ Exclude \/ ExcludeFails

Page ==
    \/ OpenPage
    \/ \E a \in Ads : RankAd(a) \/ RankAdFails(a)
    \/ EndPage

Next == Writers \/ Popup \/ Page \/ ReadLinks \/ LinksFail \/ Close

Spec == Init /\ [][Next]_vars

-----------------------------------------------------------------------------
(* Properties.                                                             *)

Items == [ad : Ads, txn : Txns, score : Int, alts : 0 .. TopN - 1]

Requests ==
    [pc : {"idle", "links", "list", "exclude", "rank", "done", "error"},
     ad : Ads \union {NoAd}, mailed : BOOLEAN, tx : {"open", "failed"},
     index : [Strings -> Marks],
     listed : SUBSET Txns, excluded : SUBSET Txns,
     todo : SUBSET Ads, items : SUBSET Items,
     gone : SUBSET Txns, closed : SUBSET Ads, seen : SUBSET Txns]

TypeOK ==
    /\ rows \subseteq Txns /\ ignored \subseteq rows
    /\ pointer \in [Txns -> Ads \union {NoAd}]
    /\ confirmed \subseteq Ads
    /\ registry \in [Strings -> Marks]
    /\ req \in Requests
    /\ Cardinality(req.listed) <= TopN /\ Cardinality(req.excluded) <= Limit
    /\ faults \in 0 .. MaxFaults

\* A popup never shows a row both as a candidate and as excluded, although
\* the two queries see different states of Postgres.
PopupListsOnce == req.listed \intersect req.excluded = {}

\* "It can NEVER reappear as a candidate": a row that was consumed or ignored
\* when the request arrived is neither listed nor suggested, and no ad that
\* was confirmed by then is suggested.
TakenIsNotOffered ==
    /\ req.listed \intersect req.gone = {}
    /\ \A i \in req.items : i.txn \notin req.gone /\ i.ad \notin req.closed

\* A row whose amount fits and that was there when the candidates were read
\* is shown by the popup, as a candidate or as excluded, unless one of the
\* two lists is full; a confirm in between moves it, but does not hide it.
PlausibleIsShown ==
    [][req.pc = "exclude" /\ req'.pc = "done" /\ faults' = faults =>
          \A t \in req.seen \ ignored :
             (/\ Ad[req.ad].amount # NoAmount
              /\ Plausible(Row[t].amount, Ad[req.ad].amount)
              /\ InOuterWindow(t, req.ad)) =>
                \/ t \in req.listed \union req'.excluded
                \/ Cardinality(req.listed) = TopN
                \/ Cardinality(req'.excluded) = Limit]_vars
=============================================================================
