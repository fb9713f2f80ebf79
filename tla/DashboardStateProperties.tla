----------------------- MODULE DashboardStateProperties -----------------------
(***************************************************************************)
(* How far what the dashboard shows can be believed.                       *)
(***************************************************************************)
EXTENDS DashboardState

(* The duplicates shown are deliveries that really were repeated, and all  *)
(* of them as long as no id had to be forgotten (state.py 140-142; the     *)
(* docs call the figure a lower bound).                                    *)
DuplicatesAreReal ==
  /\ total.duplicates <= total.received - Cardinality(delivered)
  /\ Cardinality(delivered) <= MaxSeen =>
       total.duplicates = total.received - Cardinality(delivered)

(* The place at which an event was logged last. *)
LoggedAt(e) == CHOOSE i \in DOMAIN logged :
  logged[i] = e /\ \A j \in DOMAIN logged : logged[j] = e => j <= i

(* An event is shown as replayed if and only if the gateway logged its     *)
(* replay and logged no more than the remembered number of other ones      *)
(* since, whichever of message and log record came first and whatever was  *)
(* forgotten in between (state.py 192-193, 260).                           *)
ReplayedIsShown ==
  \A i \in DOMAIN recent :
    Shown(recent[i]) = "replayed" <=>
      /\ InSeq(recent[i], logged)
      /\ Cardinality({e \in Events : InSeq(e, logged) /\ LoggedAt(e) > LoggedAt(recent[i])})
           < MaxReplayed

(* The counts of some entries of the feed. *)
CountsOf(s) ==
  LET Sum[n \in 0 .. Len(s)] == IF n = 0 THEN 0 ELSE Sum[n - 1] + s[n].count
  IN Sum[Len(s)]

(* Unless two entries read the same time, the newest entries of the feed   *)
(* all carry different messages, and no entry is shown or counted twice:   *)
(* the counts never exceed the calls, and make them up until the feed is   *)
(* full (state.py 215-222).                                                *)
FeedIsCoalesced ==
  ~tied =>
    /\ \A i, j \in DOMAIN activity :
         i < j /\ Len(activity) - i <= Lookback => activity[i].text # activity[j].text
    /\ CountsOf(activity) <= entries
    /\ Len(activity) < MaxActivity => CountsOf(activity) = entries

=============================================================================
