------------------------------ MODULE Airdrop ------------------------------
(***************************************************************************)
(* airdrop/engine.py: the progress rows of one user.  update_progress      *)
(* reads the row of a campaign and then inserts one or writes the columns  *)
(* that changed; get_user_campaigns reads the row of every campaign.  Each *)
(* call has a database session of its own.                                 *)
(***************************************************************************)
CONSTANTS
    Campaigns,
    AirdropCalls,   \* calls of update_progress and get_user_campaigns
    Statuses,       \* values of the status column
    Percents        \* values of the progress_percent column

VARIABLES
    row,        \* the rows; a row's id is the call that inserted it
    acall,      \* what each call is doing
    last,       \* history: what the last commit to a row asked for
    contested,  \* history: rows whose last writer had read an older version
    late        \* history: calls that began when a campaign had two rows

airdropVars == <<row, acall, last, contested, late>>

Values == [status : Statuses, percent : Percents]
Row == [campaign : Campaigns, values : Values]
NoRow == [campaign |-> "none"]
NoValues == [status |-> "none"]

\* A call of either kind: the row it read and what that row held, what it asks
\* for, and for get_user_campaigns the campaigns it still has to read.
ACall == [op : {"idle", "insert", "write", "list", "done", "raised"},
          campaign : Campaigns \cup {"none"}, id : AirdropCalls \cup {"none"},
          asked : Values \cup {NoValues}, loaded : Values \cup {NoValues},
          left : SUBSET Campaigns]

NoCall == [op |-> "idle", campaign |-> "none", id |-> "none",
           asked |-> NoValues, loaded |-> NoValues, left |-> {}]

\* Types of the state.
AirdropTypeOK ==
    /\ row \in [AirdropCalls -> Row \cup {NoRow}]
    /\ acall \in [AirdropCalls -> ACall]
    /\ last \in [AirdropCalls -> Values \cup {NoValues}]
    /\ contested \in SUBSET AirdropCalls
    /\ late \in SUBSET AirdropCalls

AirdropInit ==
    /\ row = [r \in AirdropCalls |-> NoRow]
    /\ acall = [c \in AirdropCalls |-> NoCall]
    /\ last = [r \in AirdropCalls |-> NoValues]
    /\ contested = {}
    /\ late = {}

-----------------------------------------------------------------------------
RowsOf(k) == {r \in AirdropCalls : row[r] # NoRow /\ row[r].campaign = k}

Duplicated(k) == \E r, s \in RowsOf(k) : r # s

\* Mutant of Unreadable: the first row is taken.
FirstRow(k) == FALSE

\* scalar_one_or_none raises when there are two rows.
Unreadable(k) == Duplicated(k)

\* What a call that begins with campaigns ks is remembered for.
NoteLate(c, ks) ==
    late' = IF \E k \in ks : Duplicated(k) THEN late \cup {c} ELSE late

\* update_progress, up to its await of the commit: one row, none, or an exception.
UpdateRead(c, k, v) ==
    /\ acall[c].op = "idle"
    /\ \/ /\ ~Unreadable(k)
          /\ \E r \in RowsOf(k) :
                acall' = [acall EXCEPT ![c] =
                    [NoCall EXCEPT !.op = "write", !.campaign = k, !.id = r,
                                   !.asked = v, !.loaded = row[r].values]]
       \/ /\ RowsOf(k) = {}
          /\ acall' = [acall EXCEPT ![c] =
                [NoCall EXCEPT !.op = "insert", !.campaign = k, !.asked = v]]
       \/ /\ Unreadable(k)
          /\ acall' = [acall EXCEPT ![c] = [NoCall EXCEPT !.op = "raised"]]
    /\ NoteLate(c, {k})
    /\ UNCHANGED <<row, last, contested>>

End(c, op) == acall' = [acall EXCEPT ![c] = [NoCall EXCEPT !.op = op]]

\* _create_progress commits its INSERT; the index over user and campaign is not unique.
CommitInsert(c) ==
    /\ acall[c].op = "insert"
    /\ row' = [row EXCEPT ![c] = [campaign |-> acall[c].campaign, values |-> acall[c].asked]]
    /\ last' = [last EXCEPT ![c] = acall[c].asked]
    /\ End(c, "done")
    /\ UNCHANGED <<contested, late>>

\* Mutant of Merged: "if progress_percent" around the assignment of the percentage.
MergedUnlessZero(asked, loaded, held) ==
    [status |-> IF asked.status = loaded.status THEN held.status ELSE asked.status,
     percent |-> IF asked.percent = 0 \/ asked.percent = loaded.percent
                 THEN held.percent ELSE asked.percent]

\* The UPDATE that SQLAlchemy makes: the columns that differ from what was loaded.
Merged(asked, loaded, held) ==
    [status |-> IF asked.status = loaded.status THEN held.status ELSE asked.status,
     percent |-> IF asked.percent = loaded.percent THEN held.percent ELSE asked.percent]

\* update_progress commits its UPDATE of the row it read.
CommitWrite(c) ==
    /\ acall[c].op = "write"
    /\ LET r == acall[c].id
           held == row[r].values IN
       /\ row' = [row EXCEPT ![r].values = Merged(acall[c].asked, acall[c].loaded, held)]
       /\ last' = [last EXCEPT ![r] = acall[c].asked]
       /\ contested' = IF held = acall[c].loaded THEN contested \ {r}
                       ELSE contested \cup {r}
    /\ End(c, "done")
    /\ UNCHANGED late

\* The commit raises: nothing was written.
CommitRaises(c) ==
    /\ acall[c].op \in {"insert", "write"}
    /\ End(c, "raised")
    /\ UNCHANGED <<row, last, contested, late>>

\* get_user_campaigns has read the campaigns.
ListBegin(c) ==
    /\ acall[c].op = "idle"
    /\ acall' = [acall EXCEPT ![c] = [NoCall EXCEPT !.op = "list", !.left = Campaigns]]
    /\ NoteLate(c, Campaigns)
    /\ UNCHANGED <<row, last, contested>>

\* It reads the row of the next campaign, in the order the table gave them.
ListRead(c, k) ==
    /\ acall[c].op = "list" /\ k \in acall[c].left
    /\ IF Unreadable(k) THEN End(c, "raised")
       ELSE IF acall[c].left = {k} THEN End(c, "done")
       ELSE acall' = [acall EXCEPT ![c].left = @ \ {k}]
    /\ UNCHANGED <<row, last, contested, late>>

AirdropNext ==
    \E c \in AirdropCalls :
        \/ \E k \in Campaigns, v \in Values : UpdateRead(c, k, v)
        \/ CommitInsert(c) \/ CommitWrite(c) \/ CommitRaises(c)
        \/ ListBegin(c)
        \/ \E k \in Campaigns : ListRead(c, k)

AirdropSpec == AirdropInit /\ [][AirdropNext]_airdropVars

-----------------------------------------------------------------------------
\* Once two calls have inserted a row for the same campaign, nobody gets through
\* again: every later update of that campaign and every later list of all the
\* user's campaigns raises, for good.
LateCallsRaise == \A c \in late : acall[c].op \in {"list", "raised"}

\* A row holds what one call asked for as a whole, status and percentage together,
\* unless the call that wrote it last had read an older version of it: then it may
\* hold the status of one call with the percentage of another.
RowsAreWhole ==
    \A r \in AirdropCalls : row[r] # NoRow /\ r \notin contested => row[r].values = last[r]
=============================================================================
