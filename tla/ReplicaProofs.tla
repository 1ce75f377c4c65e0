--------------------------- MODULE ReplicaProofs ---------------------------
(***************************************************************************)
(* What the copies and clocks of ResourceSync promise for every set of     *)
(* devices and sessions as long as saving, loading and the merges of       *)
(* different connections do not overlap on a device and no handler fails   *)
(* half-way.  Connections may be lost and devices may crash.               *)
(***************************************************************************)
EXTENDS ResourceSyncProofs

----------------------------------------------------------------------------
(* The inductive invariant.                                                *)

\* Without overlap: two sessions that are under way on one device are on the
\* same connection, and the device neither saves nor loads meanwhile.
SessionsIsolated ==
    /\ \A s, t \in Session :
          Busy(s) /\ Busy(t) /\ Ends(s) \cap Ends(t) # {} => Conn(s) = Conn(t)
    /\ \A s \in Session : \A d \in Ends(s) :
          Busy(s) => save[d] = NoSave /\ view[d] # "loading"

\* One handler at a time at either end of a connection.
OneHandler ==
    \A s, t \in Session : s # t /\ Conn(s) = Conn(t) =>
        /\ ~(session[s].phase \in AtInitiator /\ session[t].phase \in AtInitiator)
        /\ ~(session[s].phase \in AtResponder /\ session[t].phase \in AtResponder)

\* A row for e that says n claims e's first n saves.
Covers(copy, table) == \A e \in Device : \A n \in 1 .. table[e] : <<e, n>> \in copy

Below(t, u) == \A e \in Device : t[e] <= u[e]

\* What d has written and merged but not yet emitted to its editor.
Unemitted(d) ==
    {edit \in Edit : \E s \in Session : /\ s[1] = d /\ session[s].phase = "mergedI"
                                        /\ edit \in session[s].upd}

\* The database of d: its clock claims what its document holds, and the
\* document has every save of d.
Database(d) ==
    /\ ~has[d] => /\ doc[d] = {} /\ clk[d] = NoRows /\ issued[d] = 0
                  /\ view[d] = "closed" /\ save[d] = NoSave
    /\ has[d] => Listed(clk[d])
    /\ Covers(doc[d], clk[d])
    /\ \A n \in 1 .. issued[d] : <<d, n>> \in doc[d]

\* The editor of d lags the database only by updates that are on their way to
\* it, and runs ahead of it only by the edit that is being saved.
Editor(d) ==
    /\ \A u \in inbox[d] : u \subseteq doc[d]
    /\ save[d].step # "taken" => editor[d] \subseteq doc[d]
    /\ save[d].step = "taken" =>
          /\ save[d].data = doc[d] \cup {<<d, issued[d] + 1>>}
          /\ editor[d] \subseteq save[d].data
          /\ view[d] = "shown" => save[d].data \subseteq editor[d]
    /\ view[d] # "closed" => doc[d] \subseteq editor[d] \cup (UNION inbox[d]) \cup Unemitted(d)
    /\ view[d] = "loading" => save[d] = NoSave
    /\ view[d] = "loading" \/ save[d] # NoSave => inbox[d] = {}

Merging == {"agreed", "svRequest", "updResponse", "applyI", "mergedI",
            "final", "applyR", "mergedR", "clocksR", "clockResponse"}

\* A copy on its way from d to e.
CopyState(d, e, m) ==
    /\ has[d]
    /\ has[e] => doc[d] \subseteq doc[e]
    /\ m.phase \in {"readI", "readR"} => m.base = doc[d]
    /\ m.phase \in {"copyToI", "copyToR"} =>
          /\ m.upd \subseteq doc[d]
          /\ ~has[e] => doc[d] \subseteq m.upd
          /\ Covers(m.upd, m.rows)
          /\ Below(m.rows, clk[d])
          /\ Listed(m.rows)

\* A merge of the copies of i and r.
MergeState(i, r, m) ==
    /\ has[i] /\ has[r]
    /\ m.phase = "svRequest" => m.vec \subseteq doc[i]
    /\ m.phase \in {"updResponse", "applyI", "mergedI"} =>
          m.vec \subseteq doc[r] /\ m.upd \subseteq doc[r]
    /\ m.phase \in {"updResponse", "applyI"} => Covers(doc[i] \cup m.upd, clk[r])
    /\ m.phase = "applyI" => m.base = doc[i] \cup m.upd
    /\ m.phase = "mergedI" => m.base = doc[i] /\ m.upd \subseteq doc[i]
    /\ m.phase \in {"mergedI", "final", "applyR", "mergedR", "clocksR"} => Covers(doc[i], clk[r])
    /\ m.phase \in {"final", "applyR"} =>
          m.upd \subseteq doc[i] /\ Covers(doc[r] \cup m.upd, m.rows)
    /\ m.phase = "applyR" => m.base = doc[r] \cup m.upd
    /\ m.phase \in {"mergedR", "clocksR"} => Covers(doc[r], m.rows)
    /\ m.phase \in {"final", "applyR", "mergedR", "clocksR"} =>
          /\ Below(m.rows, clk[i])
          /\ \A e \in Device : clk[i][e] <= m.rows[e] \/ clk[i][e] <= clk[r][e] \/ clk[i][e] <= 0
    /\ m.phase = "clocksR" =>
          \A e \in Device : m.local[e] = clk[r][e] \/ (m.local[e] = Absent /\ clk[r][e] = 0)
    /\ m.phase = "clockResponse" =>
          /\ Covers(doc[i], m.rows) /\ Covers(doc[i], m.add)
          /\ Below(m.add, clk[r])
          /\ \A e \in Device : HasRow(m.rows, e) =>
                HasRow(clk[i], e) /\ clk[i][e] <= m.rows[e] /\ m.rows[e] = clk[r][e]

\* A message or a handler m of a session from i to r.
Content(i, r, m) ==
    /\ m.phase = "manifest" =>
          IF Listed(m.rows) THEN has[i] ELSE has[i] => doc[r] \subseteq doc[i]
    /\ m.phase \in {"toR", "readI", "copyToR"} => CopyState(i, r, m)
    /\ m.phase \in {"toI", "readR", "copyToI"} => CopyState(r, i, m)
    /\ m.phase \in Merging => MergeState(i, r, m)

SessionContent(s) == Content(s[1], s[2], session[s])

Databases == \A d \in Device : Database(d)

IInv ==
    /\ SessionsIsolated
    /\ OneHandler
    /\ Databases
    /\ \A d \in Device : Editor(d)
    /\ \A s \in Session : SessionContent(s)

----------------------------------------------------------------------------
(* Rows and what they claim.                                               *)

LEMMA RowInt ==
    ASSUME NEW t \in Table
    PROVE  \A e \in Device : t[e] \in Int /\ -1 <= t[e] /\ (t[e] = -1 <=> ~HasRow(t, e))
BY DEF Table, Clock, Absent, HasRow

\* A larger copy covers what a smaller one does.
LEMMA CoversMore ==
    ASSUME NEW copy, NEW more, copy \subseteq more, NEW t, Covers(copy, t)
    PROVE  Covers(more, t)
BY DEF Covers

\* Rows taken from covered tables, and 0 rows, are covered.
LEMMA CoversFrom ==
    ASSUME NEW copy, NEW t \in Table, NEW u \in Table, NEW v \in Table,
           Covers(copy, t), Covers(copy, u),
           \A e \in Device : v[e] <= t[e] \/ v[e] <= u[e] \/ v[e] <= 0
    PROVE  Covers(copy, v)
<1> SUFFICES ASSUME NEW e \in Device, NEW n \in 1 .. v[e] PROVE <<e, n>> \in copy
  BY DEF Covers
<1>1. /\ t[e] \in Int /\ u[e] \in Int /\ v[e] \in Int
  BY RowInt
<1>2. n \in 1 .. t[e] \/ n \in 1 .. u[e]
  BY <1>1
<1> QED BY <1>2 DEF Covers

----------------------------------------------------------------------------
(* What a step may do to the two ends of a session that it does not take.  *)

\* d gains at most what e has: edits, and rows that e has or that are 0.
Learned(d, e) ==
    /\ has[d] => has'[d]
    /\ doc[d] \subseteq doc'[d]
    /\ doc'[d] \subseteq doc[d] \cup doc[e]
    /\ ~has[d] /\ has'[d] => doc[e] \subseteq doc'[d]
    /\ Below(clk[d], clk'[d])
    /\ \A x \in Device : clk'[d][x] = clk[d][x] \/ clk'[d][x] <= clk[e][x] \/ clk'[d][x] <= 0

\* Rows are new only with the value 0.
OnlyZeros(d) ==
    \A x \in Device : clk'[d][x] = clk[d][x] \/ (clk[d][x] = Absent /\ clk'[d][x] = 0)

Frame(s) ==
    /\ session'[s] = session[s]
    /\ Learned(s[1], s[2]) /\ Learned(s[2], s[1])
    /\ session[s].phase \in AtInitiator => doc'[s[1]] = doc[s[1]]
    /\ session[s].phase \in AtResponder => doc'[s[2]] = doc[s[2]] /\ OnlyZeros(s[2])

\* Such a step leaves a copy on its way as it should be.
LEMMA FramedCopy ==
    ASSUME Typed, Typed', Databases, NEW d \in Device, NEW e \in Device, NEW m \in SessionState,
           Learned(d, e), Learned(e, d), CopyState(d, e, m),
           m.phase \in {"readI", "readR"} => doc'[d] = doc[d]
    PROVE  CopyState(d, e, m)'
<1>1. /\ \A x \in Device : clk[d][x] \in Int /\ clk'[d][x] \in Int /\ m.rows[x] \in Int
  BY RowInt DEF Typed, TypeOK, SessionState
<1>2. ~has[e] => doc[e] = {}
  BY DEF Databases, Database
<1>3. Below(m.rows, clk[d]) => Below(m.rows, clk'[d])
  BY <1>1 DEF Below, Learned
<1> QED BY <1>2, <1>3 DEF CopyState, Learned

\* And a merge.
LEMMA FramedMerge ==
    ASSUME Typed, Typed', Databases, NEW i \in Device, NEW r \in Device, NEW m \in SessionState,
           Learned(i, r), Learned(r, i), MergeState(i, r, m),
           m.phase \in AtInitiator => doc'[i] = doc[i],
           m.phase \in AtResponder => doc'[r] = doc[r] /\ OnlyZeros(r)
    PROVE  MergeState(i, r, m)'
<1>1. /\ clk[i] \in Table /\ clk'[i] \in Table /\ clk[r] \in Table /\ clk'[r] \in Table
      /\ m.rows \in Table /\ m.add \in Table /\ m.local \in Table
  BY DEF Typed, TypeOK, SessionState
<1>2. \A x \in Device : /\ clk[i][x] \in Int /\ clk'[i][x] \in Int
                        /\ clk[r][x] \in Int /\ clk'[r][x] \in Int
                        /\ m.rows[x] \in Int /\ m.add[x] \in Int /\ m.local[x] \in Int
  BY <1>1, RowInt
<1>3. /\ Covers(doc[i], clk[i]) /\ Covers(doc[r], clk[r])
      /\ doc[i] \subseteq doc'[i] /\ doc[r] \subseteq doc'[r]
  BY DEF Databases, Database, Learned
<1>4. ASSUME NEW upd, Covers(doc[i] \cup upd, clk[r])
      PROVE  Covers(doc'[i] \cup upd, clk'[r])
  <2>1. Covers(doc'[i] \cup upd, clk[r]) /\ Covers(doc'[i] \cup upd, clk[i])
    BY <1>3, <1>4, CoversMore
  <2>2. \A x \in Device : clk'[r][x] <= clk[r][x] \/ clk'[r][x] <= clk[i][x] \/ clk'[r][x] <= 0
    BY <1>2 DEF Learned
  <2> QED BY <1>1, <2>1, <2>2, CoversFrom
<1>5. Covers(doc[i], clk[r]) => Covers(doc'[i], clk'[r])
  <2>1. doc[i] \cup {} = doc[i] /\ doc'[i] \cup {} = doc'[i]
    OBVIOUS
  <2> QED BY <2>1, <1>4
<1>6. m.phase \in {"final", "applyR", "mergedR", "clocksR"} =>
          /\ Below(m.rows, clk'[i])
          /\ \A e \in Device : clk'[i][e] <= m.rows[e] \/ clk'[i][e] <= clk'[r][e] \/ clk'[i][e] <= 0
  BY <1>2 DEF MergeState, Learned, Below
<1>7. m.phase = "clocksR" =>
          \A e \in Device : m.local[e] = clk'[r][e] \/ (m.local[e] = Absent /\ clk'[r][e] = 0)
  BY <1>2 DEF MergeState, OnlyZeros, AtResponder, Absent
<1>8. m.phase = "clockResponse" =>
          /\ Below(m.add, clk'[r])
          /\ \A e \in Device : HasRow(m.rows, e) =>
                HasRow(clk'[i], e) /\ clk'[i][e] <= m.rows[e] /\ m.rows[e] = clk'[r][e]
  <2> SUFFICES ASSUME m.phase = "clockResponse"
               PROVE  /\ Below(m.add, clk'[r])
                      /\ \A e \in Device : HasRow(m.rows, e) =>
                            HasRow(clk'[i], e) /\ clk'[i][e] <= m.rows[e] /\ m.rows[e] = clk'[r][e]
    OBVIOUS
  <2>1. Below(m.add, clk'[r])
    BY <1>2 DEF MergeState, Learned, Below
  <2>2. ASSUME NEW e \in Device, HasRow(m.rows, e)
        PROVE  HasRow(clk'[i], e) /\ clk'[i][e] <= m.rows[e] /\ m.rows[e] = clk'[r][e]
    <3>1. HasRow(clk[i], e) /\ clk[i][e] <= m.rows[e] /\ m.rows[e] = clk[r][e]
      BY <2>2 DEF MergeState
    <3>2. 0 <= clk[i][e]
      BY <1>1, <1>2, <3>1, RowInt
    <3>3. /\ clk[i][e] <= clk'[i][e] /\ clk[r][e] <= clk'[r][e]
          /\ clk'[i][e] = clk[i][e] \/ clk'[i][e] <= clk[r][e] \/ clk'[i][e] <= 0
          /\ clk'[r][e] = clk[r][e] \/ clk'[r][e] <= clk[i][e] \/ clk'[r][e] <= 0
      BY DEF Learned, Below
    <3>4. clk'[i][e] <= m.rows[e] /\ m.rows[e] = clk'[r][e] /\ 0 <= clk'[i][e]
      BY <1>2, <3>1, <3>2, <3>3
    <3> QED BY <1>1, <1>2, <3>4, RowInt
  <2> QED BY <2>1, <2>2
<1>9. /\ Covers(doc[r] \cup m.upd, m.rows) => Covers(doc'[r] \cup m.upd, m.rows)
      /\ Covers(doc[r], m.rows) => Covers(doc'[r], m.rows)
      /\ Covers(doc[i], m.rows) => Covers(doc'[i], m.rows)
      /\ Covers(doc[i], m.add) => Covers(doc'[i], m.add)
  BY <1>3, CoversMore
<1>10. has'[i] /\ has'[r]
  BY DEF MergeState, Learned
<1> QED BY <1>3, <1>4, <1>5, <1>6, <1>7, <1>8, <1>9, <1>10 DEF MergeState, AtInitiator, AtResponder

\* Anything under way.
LEMMA FramedContent ==
    ASSUME Typed, Typed', Databases, NEW i \in Device, NEW r \in Device, NEW m \in SessionState,
           Learned(i, r), Learned(r, i), Content(i, r, m),
           m.phase \in AtInitiator => doc'[i] = doc[i],
           m.phase \in AtResponder => doc'[r] = doc[r] /\ OnlyZeros(r)
    PROVE  Content(i, r, m)'
<1>1. (~has[i] => doc[i] = {}) /\ (~has[r] => doc[r] = {})
  BY DEF Databases, Database
<1>2. m.phase \in {"toR", "readI", "copyToR"} => CopyState(i, r, m)'
  BY FramedCopy DEF Content, AtInitiator
<1>3. m.phase \in {"toI", "readR", "copyToI"} => CopyState(r, i, m)'
  BY FramedCopy DEF Content, AtResponder
<1>4. m.phase \in Merging => MergeState(i, r, m)'
  BY FramedMerge DEF Content
<1>5. m.phase = "manifest" =>
          IF Listed(m.rows) THEN has'[i] ELSE has'[i] => doc'[r] \subseteq doc'[i]
  BY <1>1 DEF Content, Learned
<1> QED BY <1>2, <1>3, <1>4, <1>5 DEF Content

\* A session that is left alone keeps its content right.
LEMMA FramedSession ==
    ASSUME Typed, Typed', Databases, NEW s \in Session, SessionContent(s), Frame(s)
    PROVE  SessionContent(s)'
<1>1. /\ s[1] \in Device /\ s[2] \in Device
      /\ session[s] \in SessionState /\ session'[s] = session[s]
  BY SessionEnds, SessionFields DEF Frame
<1>2. ASSUME NEW m \in SessionState, m = session[s]
      PROVE  Content(s[1], s[2], m)'
  BY <1>1, <1>2, FramedContent DEF Frame, SessionContent
<1> QED BY <1>1, <1>2 DEF SessionContent

----------------------------------------------------------------------------
(* Every step of a session leaves what it carries right.                   *)

LEMMA BecomesState ==
    ASSUME Typed, NEW s \in Session, NEW state, Becomes(s, state)
    PROVE  session'[s] = state /\ \A t \in Session : t # s => session'[t] = session[t]
BY DEF Becomes, Typed, TypeOK

\* Content, where a step leaves the databases alone.
LEMMA SameContent ==
    ASSUME UNCHANGED <<has, doc, clk>>, NEW s \in Session, NEW m, session'[s] = m,
           Content(s[1], s[2], m)
    PROVE  SessionContent(s)'
BY DEF SessionContent, Content, CopyState, MergeState

LEMMA StartSyncContent ==
    ASSUME Typed, Databases, NEW s \in Session, StartSync(s)
    PROVE  SessionContent(s)'
<1> DEFINE i == s[1]
           m == [Idle EXCEPT !.phase = "manifest", !.rows = clk[i]]
<1>1. session'[s] = m /\ UNCHANGED <<has, doc, clk>>
  BY BecomesState DEF StartSync, device
<1>2. m.phase = "manifest" /\ m.rows = clk[i]
  BY DEF Idle
<1> HIDE DEF m
<1>3. IF Listed(clk[i]) THEN has[i] ELSE ~has[i]
  BY SessionEnds DEF Databases, Database, Listed
<1> QED BY <1>1, <1>2, <1>3, SameContent DEF Content, Merging

LEMMA CompareContent ==
    ASSUME Typed, Databases, NEW s \in Session, SessionContent(s), CompareManifests(s)
    PROVE  SessionContent(s)'
<1> DEFINE i == s[1]
           r == s[2]
           p == IF has[r] /\ Listed(session[s].rows)
                THEN IF NeedsUpdate(clk[r], session[s].rows) THEN "agreed" ELSE "idle"
                ELSE IF has[r] THEN "toI"
                ELSE IF Listed(session[s].rows) THEN "toR" ELSE "idle"
           m == [Idle EXCEPT !.phase = p]
<1>1. session'[s] = m /\ UNCHANGED <<has, doc, clk>>
  BY BecomesState DEF CompareManifests, device
<1>2. m.phase = p
  BY DEF Idle
<1> HIDE DEF m
<1>3. Content(i, r, session[s]) /\ session[s].phase = "manifest"
  BY DEF SessionContent, CompareManifests
<1>4. CASE p = "agreed"
  BY <1>2, <1>3, <1>4, <1>1, SameContent DEF Content, Merging, MergeState
<1>5. CASE p = "toI"
  BY <1>2, <1>3, <1>5, <1>1, SameContent DEF Content, Merging, CopyState
<1>6. CASE p = "toR"
  BY <1>2, <1>3, <1>6, <1>1, SameContent DEF Content, Merging, CopyState
<1>7. CASE p = "idle"
  BY <1>2, <1>7, <1>1, SameContent DEF Content, Merging
<1> QED BY <1>4, <1>5, <1>6, <1>7

LEMMA ReadCopyContent ==
    ASSUME Typed, NEW s \in Session, SessionContent(s), ReadCopy(s)
    PROVE  SessionContent(s)'
<1> DEFINE i == s[1]
           r == s[2]
           d == Sender(s)
           m == [Idle EXCEPT !.phase = IF d = s[1] THEN "readI" ELSE "readR", !.base = doc[d]]
<1>1. session'[s] = m /\ UNCHANGED <<has, doc>>
  BY BecomesState DEF ReadCopy
<1>2. m.phase = (IF d = s[1] THEN "readI" ELSE "readR") /\ m.base = doc[d]
  BY DEF Idle
<1> HIDE DEF m
<1>3. Content(i, r, session[s])
  BY DEF SessionContent
<1>4. CASE session[s].phase = "toR"
  BY <1>1, <1>2, <1>3, <1>4 DEF Content, SessionContent, CopyState, Sender, Merging
<1>5. CASE session[s].phase = "toI"
  BY <1>1, <1>2, <1>3, <1>5, SessionEnds DEF Content, SessionContent, CopyState, Sender, Merging
<1> QED BY <1>4, <1>5 DEF ReadCopy

LEMMA SendCopyContent ==
    ASSUME Typed, Databases, NEW s \in Session, SessionContent(s), SendCopy(s)
    PROVE  SessionContent(s)'
<1> DEFINE i == s[1]
           r == s[2]
           d == Sender(s)
           m == [Idle EXCEPT !.phase = IF d = s[1] THEN "copyToR" ELSE "copyToI",
                             !.upd = session[s].base, !.rows = clk[d]]
<1>1. session'[s] = m /\ UNCHANGED <<has, doc, clk>>
  BY BecomesState DEF SendCopy, device
<1>2. /\ m.phase = (IF d = s[1] THEN "copyToR" ELSE "copyToI")
      /\ m.upd = session[s].base /\ m.rows = clk[d]
  BY DEF Idle
<1> HIDE DEF m
<1>3. Content(i, r, session[s]) /\ d \in Device
  BY SessionEnds DEF SessionContent, Sender
<1>4. \A e \in Device : clk[d][e] <= clk[d][e]
  BY <1>3, RowInt DEF Typed, TypeOK
<1>5. CASE session[s].phase = "readI"
  BY <1>1, <1>2, <1>3, <1>4, <1>5, SameContent
     DEF Content, CopyState, Sender, Merging, Databases, Database, Below
<1>6. CASE session[s].phase = "readR"
  BY <1>1, <1>2, <1>3, <1>4, <1>6, SameContent, SessionEnds
     DEF Content, CopyState, Sender, Merging, Databases, Database, Below
<1> QED BY <1>5, <1>6 DEF SendCopy

LEMMA LeavesContent ==
    ASSUME Typed, NEW s \in Session, ReceiveCopy(s) \/ AcceptClocks(s)
    PROVE  SessionContent(s)'
<1>1. session'[s].phase = "idle"
  BY BecomesState DEF ReceiveCopy, AcceptClocks, Idle
<1> QED BY <1>1 DEF SessionContent, Content, Merging

LEMMA RequestContent ==
    ASSUME Typed, NEW s \in Session, SessionContent(s), RequestUpdates(s)
    PROVE  SessionContent(s)'
<1> DEFINE i == s[1]
           r == s[2]
           m == [Idle EXCEPT !.phase = "svRequest", !.vec = doc[i]]
<1>1. session'[s] = m /\ UNCHANGED <<has, doc, clk>>
  BY BecomesState DEF RequestUpdates, device
<1>2. m.phase = "svRequest" /\ m.vec = doc[i]
  BY DEF Idle
<1> HIDE DEF m
<1>3. has[i] /\ has[r]
  BY DEF SessionContent, Content, Merging, MergeState, RequestUpdates
<1> QED BY <1>1, <1>2, <1>3, SameContent DEF Content, Merging, MergeState

LEMMA GenerateContent ==
    ASSUME Typed, Databases, NEW s \in Session, SessionContent(s), GenerateUpdates(s)
    PROVE  SessionContent(s)'
<1> DEFINE i == s[1]
           r == s[2]
           m == [Idle EXCEPT !.phase = "updResponse", !.upd = doc[r] \ session[s].vec,
                             !.vec = doc[r]]
<1>1. session'[s] = m /\ UNCHANGED <<has, doc, clk>>
  BY BecomesState DEF GenerateUpdates, device
<1>2. m.phase = "updResponse" /\ m.upd = doc[r] \ session[s].vec /\ m.vec = doc[r]
  BY DEF Idle
<1> HIDE DEF m
<1>3. has[i] /\ has[r] /\ session[s].vec \subseteq doc[i]
  BY DEF SessionContent, Content, Merging, MergeState, GenerateUpdates
<1>4. Covers(doc[r], clk[r]) /\ doc[r] \subseteq doc[i] \cup m.upd
  BY <1>2, <1>3, SessionEnds DEF Databases, Database
<1>5. Covers(doc[i] \cup m.upd, clk[r])
  BY <1>4, CoversMore
<1> QED BY <1>1, <1>2, <1>3, <1>5, SameContent DEF Content, Merging, MergeState

LEMMA ReadForMergeContent ==
    ASSUME Typed, NEW s \in Session, SessionContent(s), ReadForMerge(s)
    PROVE  SessionContent(s)'
<1> DEFINE i == s[1]
           r == s[2]
           m == [session[s] EXCEPT !.phase = "applyI", !.base = doc[i] \cup session[s].upd]
<1>1. session'[s] = m /\ UNCHANGED <<has, doc, clk>>
  BY BecomesState DEF ReadForMerge, device
<1>2. /\ m.phase = "applyI" /\ m.base = doc[i] \cup session[s].upd
      /\ m.upd = session[s].upd /\ m.vec = session[s].vec
  BY SessionFields DEF SessionState
<1> HIDE DEF m
<1>3. MergeState(i, r, session[s]) /\ session[s].phase = "updResponse"
  BY DEF SessionContent, Content, Merging, ReadForMerge
<1> QED BY <1>1, <1>2, <1>3, SameContent DEF Content, Merging, MergeState

LEMMA WriteMergedContent ==
    ASSUME Typed, NEW s \in Session, SessionContent(s), WriteMerged(s)
    PROVE  SessionContent(s)'
<1> DEFINE i == s[1]
           r == s[2]
           m == [session[s] EXCEPT !.phase = "mergedI"]
<1>1. session'[s] = m /\ UNCHANGED <<has, clk>> /\ doc' = [doc EXCEPT ![i] = session[s].base]
  BY BecomesState DEF WriteMerged
<1>2. /\ m.phase = "mergedI" /\ m.base = session[s].base
      /\ m.upd = session[s].upd /\ m.vec = session[s].vec
  BY SessionFields DEF SessionState
<1> HIDE DEF m
<1>3. MergeState(i, r, session[s]) /\ session[s].phase = "applyI"
  BY DEF SessionContent, Content, Merging, WriteMerged
<1>4. doc'[i] = session[s].base /\ doc'[r] = doc[r]
  BY <1>1, SessionEnds DEF Typed, TypeOK
<1> QED BY <1>1, <1>2, <1>3, <1>4 DEF SessionContent, Content, Merging, MergeState

LEMMA SendFinalContent ==
    ASSUME Typed, Databases, NEW s \in Session, SessionContent(s), SendFinal(s)
    PROVE  SessionContent(s)'
<1> DEFINE i == s[1]
           r == s[2]
           m == [Idle EXCEPT !.phase = "final", !.upd = session[s].base \ session[s].vec,
                             !.rows = clk[i]]
<1>1. session'[s] = m /\ UNCHANGED <<has, doc, clk>>
  BY BecomesState DEF SendFinal
<1>2. m.phase = "final" /\ m.upd = session[s].base \ session[s].vec /\ m.rows = clk[i]
  BY DEF Idle
<1> HIDE DEF m
<1>3. MergeState(i, r, session[s]) /\ session[s].phase = "mergedI"
  BY DEF SessionContent, Content, Merging, SendFinal
<1>4. /\ has[i] /\ has[r] /\ session[s].base = doc[i] /\ session[s].vec \subseteq doc[r]
      /\ Covers(doc[i], clk[r])
  BY <1>3 DEF MergeState
<1>5. Covers(doc[i], clk[i]) /\ doc[i] \subseteq doc[r] \cup m.upd
  BY <1>2, <1>4, SessionEnds DEF Databases, Database
<1>6. Covers(doc[r] \cup m.upd, clk[i])
  BY <1>5, CoversMore
<1>7. \A e \in Device : clk[i][e] <= clk[i][e]
  BY SessionEnds, RowInt DEF Typed, TypeOK
<1> QED BY <1>1, <1>2, <1>4, <1>6, <1>7, SameContent DEF Content, Merging, MergeState, Below

LEMMA ReadForFinalContent ==
    ASSUME Typed, NEW s \in Session, SessionContent(s), ReadForFinal(s)
    PROVE  SessionContent(s)'
<1> DEFINE i == s[1]
           r == s[2]
           m == [session[s] EXCEPT !.phase = "applyR", !.base = doc[r] \cup session[s].upd]
<1>1. session'[s] = m /\ UNCHANGED <<has, doc, clk>>
  BY BecomesState DEF ReadForFinal, device
<1>2. /\ m.phase = "applyR" /\ m.base = doc[r] \cup session[s].upd
      /\ m.upd = session[s].upd /\ m.rows = session[s].rows
  BY SessionFields DEF SessionState
<1> HIDE DEF m
<1>3. MergeState(i, r, session[s]) /\ session[s].phase = "final"
  BY DEF SessionContent, Content, Merging, ReadForFinal
<1> QED BY <1>1, <1>2, <1>3, SameContent DEF Content, Merging, MergeState

LEMMA WriteFinalContent ==
    ASSUME Typed, NEW s \in Session, SessionContent(s), WriteFinal(s)
    PROVE  SessionContent(s)'
<1> DEFINE i == s[1]
           r == s[2]
           m == [session[s] EXCEPT !.phase = "mergedR"]
<1>1. session'[s] = m /\ UNCHANGED <<has, clk>> /\ doc' = [doc EXCEPT ![r] = session[s].base]
  BY BecomesState DEF WriteFinal
<1>2. m.phase = "mergedR" /\ m.rows = session[s].rows
  BY SessionFields DEF SessionState
<1> HIDE DEF m
<1>3. MergeState(i, r, session[s]) /\ session[s].phase = "applyR"
  BY DEF SessionContent, Content, Merging, WriteFinal
<1>4. doc'[r] = session[s].base /\ doc'[i] = doc[i]
  BY <1>1, SessionEnds DEF Typed, TypeOK
<1> QED BY <1>1, <1>2, <1>3, <1>4 DEF SessionContent, Content, Merging, MergeState

LEMMA ReadClocksContent ==
    ASSUME Typed, NEW s \in Session, SessionContent(s), ReadClocks(s)
    PROVE  SessionContent(s)'
<1> DEFINE i == s[1]
           r == s[2]
           m == [Idle EXCEPT !.phase = "clocksR", !.rows = session[s].rows, !.local = clk[r]]
<1>1. session'[s] = m /\ UNCHANGED <<has, doc, clk>>
  BY BecomesState DEF ReadClocks, device
<1>2. m.phase = "clocksR" /\ m.rows = session[s].rows /\ m.local = clk[r]
  BY DEF Idle
<1> HIDE DEF m
<1>3. MergeState(i, r, session[s]) /\ session[s].phase = "mergedR"
  BY DEF SessionContent, Content, Merging, ReadClocks
<1> QED BY <1>1, <1>2, <1>3, SameContent DEF Content, Merging, MergeState

\* What the responder's handler of a merge relies on.
LEMMA ClocksRead ==
    ASSUME Typed, NEW s \in Session, SessionContent(s), session[s].phase = "clocksR"
    PROVE  LET i == s[1]
               r == s[2]
               local == session[s].local
               remote == session[s].rows
           IN  /\ has[i] /\ has[r]
               /\ Covers(doc[i], clk[r]) /\ Covers(doc[r], remote)
               /\ \A e \in Device :
                     /\ clk[r][e] \in Int /\ clk[i][e] \in Int
                     /\ local[e] \in Int /\ remote[e] \in Int
                     /\ -1 <= clk[r][e] /\ -1 <= local[e] /\ -1 <= remote[e]
                     /\ remote[e] <= clk[i][e]
                     /\ clk[i][e] <= remote[e] \/ clk[i][e] <= clk[r][e] \/ clk[i][e] <= 0
                     /\ local[e] = clk[r][e] \/ (local[e] = Absent /\ clk[r][e] = 0)
<1>1. MergeState(s[1], s[2], session[s])
  BY DEF SessionContent, Content, Merging
<1>2. /\ clk[s[1]] \in Table /\ clk[s[2]] \in Table
      /\ session[s].local \in Table /\ session[s].rows \in Table
  BY SessionEnds, SessionFields DEF Typed, TypeOK
<1>3. \A e \in Device : /\ clk[s[1]][e] \in Int /\ clk[s[2]][e] \in Int
                        /\ session[s].local[e] \in Int /\ session[s].rows[e] \in Int
                        /\ -1 <= clk[s[2]][e] /\ -1 <= session[s].local[e]
                        /\ -1 <= session[s].rows[e]
  BY <1>2, RowInt
<1> QED BY <1>1, <1>3 DEF MergeState, Below

\* The responder writes only rows that are higher than its own.
LEMMA MergedRows ==
    ASSUME Typed, NEW s \in Session, SessionContent(s), MergeClocks(s)
    PROVE  /\ \A d \in Device : d # s[2] => clk'[d] = clk[d]
           /\ \A e \in Device :
                 \/ clk'[s[2]][e] = clk[s[2]][e]
                 \/ /\ clk'[s[2]][e] = session[s].rows[e]
                    /\ clk[s[2]][e] < session[s].rows[e]
<1> DEFINE r == s[2]
           local == session[s].local
           remote == session[s].rows
           update == UpdateLocal(local, remote)
           add == AddLocal(local, remote)
<1>1. session[s].phase = "clocksR" /\ r \in Device /\ clk \in [Device -> Table]
  BY SessionEnds DEF MergeClocks, Typed, TypeOK
<1>2. \/ clk' = clk
      \/ CanAdd(clk[r], add) /\ clk' = [clk EXCEPT ![r] = WriteRows(clk[r], update, add)]
  <2>1. CASE LocalNeedsUpdate(local, remote) /\ ~CanAdd(clk[r], add)
    BY <2>1 DEF MergeClocks
  <2>2. CASE ~LocalNeedsUpdate(local, remote)
    <3>1. clk' = [clk EXCEPT ![r] = clk[r]]
      BY <2>2 DEF MergeClocks
    <3> QED BY <3>1, <1>1
  <2>3. CASE LocalNeedsUpdate(local, remote) /\ CanAdd(clk[r], add)
    BY <2>3 DEF MergeClocks
  <2> QED BY <2>1, <2>2, <2>3
<1>3. CASE clk' = clk
  BY <1>3
<1>4. CASE CanAdd(clk[r], add) /\ clk' = [clk EXCEPT ![r] = WriteRows(clk[r], update, add)]
  <2>1. clk'[r] = WriteRows(clk[r], update, add) /\ \A d \in Device : d # r => clk'[d] = clk[d]
    BY <1>1, <1>4
  <2>2. ASSUME NEW e \in Device
        PROVE  clk'[r][e] = clk[r][e] \/ (clk'[r][e] = remote[e] /\ clk[r][e] < remote[e])
    <3>1. clk'[r][e] = IF e \in Rows(add) THEN add[e]
                       ELSE IF e \in Rows(update) \cap Rows(clk[r]) THEN update[e] ELSE clk[r][e]
      BY <2>1 DEF WriteRows
    <3>2. /\ clk[r][e] \in Int /\ local[e] \in Int /\ remote[e] \in Int /\ -1 <= remote[e]
          /\ local[e] = clk[r][e] \/ (local[e] = Absent /\ clk[r][e] = 0)
      BY <1>1, ClocksRead
    <3>3. CASE e \in Rows(add)
      <4>1. e \notin Rows(clk[r]) /\ add[e] = remote[e] /\ remote[e] # Absent
        BY <1>4, <3>3 DEF CanAdd, AddLocal, Rows, HasRow
      <4> QED BY <3>1, <3>2, <3>3, <4>1 DEF Rows, HasRow, Absent
    <3>4. CASE e \notin Rows(add) /\ e \in Rows(update) \cap Rows(clk[r])
      <4>1. update[e] = remote[e] /\ remote[e] > local[e] /\ local[e] # Absent
        BY <3>4 DEF UpdateLocal, Rows, HasRow
      <4> QED BY <3>1, <3>2, <3>4, <4>1
    <3>5. CASE e \notin Rows(add) /\ e \notin Rows(update) \cap Rows(clk[r])
      BY <3>1, <3>5
    <3> QED BY <3>3, <3>4, <3>5
  <2> QED BY <2>1, <2>2
<1> QED BY <1>2, <1>3, <1>4

\* What it sends back is higher than any row that the initiator may have by now.
LEMMA MergeClocksContent ==
    ASSUME Typed, NEW s \in Session, SessionContent(s), MergeClocks(s)
    PROVE  SessionContent(s)'
<1> DEFINE i == s[1]
           r == s[2]
           local == session[s].local
           remote == session[s].rows
           rows == UpdateRemote(local, remote)
           others == AddRemote(local, remote)
           m == [Idle EXCEPT !.phase = "clockResponse", !.rows = rows, !.add = others]
<1>1. CASE Becomes(s, Idle)
  <2>1. session'[s].phase = "idle"
    BY <1>1, BecomesState DEF Idle
  <2> QED BY <2>1 DEF SessionContent, Content, Merging
<1>2. CASE Becomes(s, m)
  <2>1. session'[s] = m /\ UNCHANGED <<has, doc>>
    BY <1>2, BecomesState DEF MergeClocks
  <2>2. m.phase = "clockResponse" /\ m.rows = rows /\ m.add = others
    BY DEF Idle
  <2> HIDE DEF m
  <2>3. i \in Device /\ r \in Device /\ i # r /\ session[s].phase = "clocksR"
    BY SessionEnds DEF MergeClocks
  <2>4. rows \in Table /\ others \in Table /\ clk[r] \in Table /\ clk[i] \in Table
    BY <2>3, SessionFields, MergeLists DEF Typed, TypeOK
  <2>5. clk'[i] = clk[i]
    BY <2>3, MergedRows
  <2>6. has[i] /\ has[r] /\ Covers(doc[i], clk[r])
    BY <2>3, ClocksRead
  <2>7. Covers(doc[i], rows) /\ Covers(doc[i], others)
    <3>1. \A e \in Device : rows[e] <= clk[r][e] /\ others[e] <= clk[r][e]
      BY <2>3, ClocksRead DEF UpdateRemote, AddRemote, Absent
    <3> QED BY <2>4, <2>6, <3>1, CoversFrom
  <2>8. ASSUME NEW e \in Device
        PROVE  others[e] <= clk'[r][e]
    BY <2>3, ClocksRead, MergedRows DEF AddRemote, Absent
  <2>9. ASSUME NEW e \in Device, HasRow(rows, e)
        PROVE  HasRow(clk[i], e) /\ clk[i][e] <= rows[e] /\ rows[e] = clk'[r][e]
    <3>1. rows[e] = local[e] /\ local[e] > remote[e] /\ remote[e] # Absent
      BY <2>9 DEF UpdateRemote, HasRow, Rows
    <3> QED BY <2>3, <3>1, ClocksRead, MergedRows DEF HasRow, Absent
  <2> HIDE DEF rows, others
  <2> QED BY <2>1, <2>2, <2>5, <2>6, <2>7, <2>8, <2>9
          DEF SessionContent, Content, Merging, MergeState, Below
<1> QED BY <1>1, <1>2 DEF MergeClocks

\* Every step of a session leaves what it carries right.
LEMMA ProtocolContent ==
    ASSUME Typed, Databases, NEW s \in Session, SessionContent(s), StartSync(s) \/ Protocol(s)
    PROVE  SessionContent(s)'
BY StartSyncContent, CompareContent, ReadCopyContent, SendCopyContent, LeavesContent,
   RequestContent, GenerateContent, ReadForMergeContent, WriteMergedContent, SendFinalContent,
   ReadForFinalContent, WriteFinalContent, ReadClocksContent, MergeClocksContent
   DEF Protocol

----------------------------------------------------------------------------
(* What a step of a session does to the databases.                         *)

Same(d) == has'[d] = has[d] /\ doc'[d] = doc[d] /\ clk'[d] = clk[d]

LEMMA SameLearned ==
    ASSUME Typed, NEW d \in Device, NEW e \in Device, Same(d)
    PROVE  Learned(d, e) /\ OnlyZeros(d)
<1>1. \A x \in Device : clk[d][x] <= clk[d][x]
  BY RowInt DEF Typed, TypeOK
<1> QED BY <1>1 DEF Same, Learned, OnlyZeros, Below

LEMMA ZeroLearned ==
    ASSUME Typed, NEW d \in Device, NEW e \in Device, NEW x \in Device,
           has'[d] = has[d], doc'[d] = doc[d], clk'[d] = ZeroRow(clk[d], x)
    PROVE  Learned(d, e) /\ OnlyZeros(d)
<1>1. clk[d] \in Table /\ \A y \in Device : clk[d][y] \in Int /\ -1 <= clk[d][y]
  BY RowInt DEF Typed, TypeOK
<1>2. \A y \in Device : clk'[d][y] = clk[d][y] \/ (clk[d][y] = Absent /\ clk'[d][y] = 0)
  BY <1>1 DEF ZeroRow, Table, HasRow
<1> QED BY <1>1, <1>2 DEF Learned, OnlyZeros, Below, Absent

LEMMA ListedRow ==
    ASSUME NEW t \in Table
    PROVE  Listed(t) <=> \E e \in Device : HasRow(t, e)
BY DEF Listed, NoRows, HasRow, Table

LEMMA SameDatabase ==
    ASSUME Databases, NEW d \in Device, Same(d),
           issued'[d] = issued[d], view'[d] = view[d], save'[d] = save[d]
    PROVE  Database(d)'
BY DEF Databases, Database, Same, Covers

\* A holder's database stays right if its rows are covered.
LEMMA LearnedDatabase ==
    ASSUME Typed, Typed', Databases, NEW d \in Device, NEW e \in Device, has[d], Learned(d, e),
           Covers(doc'[d], clk'[d]), issued'[d] = issued[d]
    PROVE  Database(d)'
<1>1. clk[d] \in Table /\ clk'[d] \in Table
  BY DEF Typed, TypeOK
<1>2. Listed(clk'[d])
  <2>1. PICK x \in Device : HasRow(clk[d], x)
    BY <1>1, ListedRow DEF Databases, Database
  <2>2. clk[d][x] \in Int /\ clk'[d][x] \in Int /\ -1 <= clk[d][x] /\ clk[d][x] # -1
    BY <1>1, <2>1, RowInt
  <2>3. HasRow(clk'[d], x)
    BY <2>2 DEF Learned, Below, HasRow, Absent
  <2> QED BY <1>1, <2>3, ListedRow
<1> QED BY <1>2 DEF Databases, Database, Learned

Effect(s) ==
    /\ \A d \in Device : d \notin Ends(s) => Same(d)
    /\ Learned(s[1], s[2]) /\ Learned(s[2], s[1])
    /\ doc'[s[1]] # doc[s[1]] => session[s].phase \in AtInitiator \/ Free(s, s[1])
    /\ ~(doc'[s[2]] = doc[s[2]] /\ OnlyZeros(s[2]))
          => session[s].phase \in AtResponder \/ Free(s, s[2])
    /\ Databases'

LEMMA QuietEffect ==
    ASSUME Typed, Databases, NEW s \in Session,
           UNCHANGED <<has, doc, clk, issued, view, save>>
    PROVE  Effect(s)
BY SessionEnds, SameLearned, SameDatabase DEF Effect, Same, Databases

LEMMA ReadCopyEffect ==
    ASSUME Typed, Typed', Databases, NEW s \in Session, SessionContent(s), ReadCopy(s)
    PROVE  Effect(s)
<1> DEFINE d == Sender(s)
           e == Receiver(s)
<1>1. d \in Ends(s) /\ e \in Ends(s) /\ d \in Device /\ e \in Device /\ Ends(s) = {s[1], s[2]}
  BY SessionEnds DEF Sender, Receiver, Ends
<1>2. clk' = [clk EXCEPT ![d] = ZeroRow(clk[d], e)] /\ UNCHANGED <<has, doc, issued, view, save>>
  BY DEF ReadCopy
<1>3. clk'[d] = ZeroRow(clk[d], e) /\ \A x \in Device : x # d => Same(x)
  BY <1>1, <1>2 DEF Same, Typed, TypeOK
<1>4. has[d]
  BY SessionEnds DEF ReadCopy, Sender, SessionContent, Content, CopyState
<1> HIDE DEF d, e
<1>5. \A x, y \in Device : Learned(x, y) /\ OnlyZeros(x)
  BY <1>1, <1>2, <1>3, SameLearned, ZeroLearned
<1>6. Covers(doc'[d], clk'[d])
  <2>1. \A x \in Device : clk'[d][x] <= clk[d][x] \/ clk'[d][x] <= 0
    BY <1>1, <1>5, RowInt DEF OnlyZeros, Typed, TypeOK
  <2> QED BY <1>1, <1>2, <2>1, CoversFrom DEF Databases, Database, Typed, TypeOK
<1>7. \A x \in Device : x = d => Database(x)'
  BY <1>1, <1>2, <1>4, <1>5, <1>6, LearnedDatabase
<1>8. \A x \in Device : x # d => Database(x)'
  BY <1>2, <1>3, SameDatabase
<1> QED BY <1>1, <1>2, <1>3, <1>5, <1>7, <1>8, SessionEnds DEF Effect, Databases

LEMMA WriteMergedEffect ==
    ASSUME Typed, Typed', Databases, NEW s \in Session, SessionContent(s), WriteMerged(s)
    PROVE  Effect(s)
<1> DEFINE i == s[1]
           r == s[2]
<1>1. i \in Device /\ r \in Device /\ i # r /\ Ends(s) = {i, r}
  BY SessionEnds DEF Ends
<1>2. /\ doc' = [doc EXCEPT ![i] = session[s].base] /\ UNCHANGED <<has, clk, issued, view, save>>
      /\ session[s].phase = "applyI"
  BY DEF WriteMerged
<1>3. doc'[i] = session[s].base /\ \A x \in Device : x # i => Same(x)
  BY <1>1, <1>2 DEF Same, Typed, TypeOK
<1>4. has[i] /\ session[s].base = doc[i] \cup session[s].upd /\ session[s].upd \subseteq doc[r]
  BY <1>2 DEF SessionContent, Content, Merging, MergeState
<1>5. Learned(i, r)
  <2>1. \A x \in Device : clk[i][x] <= clk[i][x]
    BY <1>1, RowInt DEF Typed, TypeOK
  <2> QED BY <1>2, <1>3, <1>4, <2>1 DEF Learned, Below
<1>6. Learned(r, i) /\ OnlyZeros(r) /\ doc'[r] = doc[r]
  BY <1>1, <1>3, SameLearned DEF Same
<1>7. Database(i)'
  <2>1. Covers(doc'[i], clk'[i])
    BY <1>1, <1>2, <1>3, <1>4, CoversMore DEF Databases, Database
  <2> QED BY <1>1, <1>2, <1>4, <1>5, <2>1, LearnedDatabase
<1>8. \A x \in Device : x # i => Database(x)'
  BY <1>2, <1>3, SameDatabase
<1> QED BY <1>1, <1>2, <1>3, <1>5, <1>6, <1>7, <1>8 DEF Effect, Databases, AtInitiator

LEMMA WriteFinalEffect ==
    ASSUME Typed, Typed', Databases, NEW s \in Session, SessionContent(s), WriteFinal(s)
    PROVE  Effect(s)
<1> DEFINE i == s[1]
           r == s[2]
<1>1. i \in Device /\ r \in Device /\ i # r /\ Ends(s) = {i, r}
  BY SessionEnds DEF Ends
<1>2. /\ doc' = [doc EXCEPT ![r] = session[s].base] /\ UNCHANGED <<has, clk, issued, view, save>>
      /\ session[s].phase = "applyR"
  BY DEF WriteFinal
<1>3. doc'[r] = session[s].base /\ \A x \in Device : x # r => Same(x)
  BY <1>1, <1>2 DEF Same, Typed, TypeOK
<1>4. has[r] /\ session[s].base = doc[r] \cup session[s].upd /\ session[s].upd \subseteq doc[i]
  BY <1>2 DEF SessionContent, Content, Merging, MergeState
<1>5. Learned(r, i)
  <2>1. \A x \in Device : clk[r][x] <= clk[r][x]
    BY <1>1, RowInt DEF Typed, TypeOK
  <2> QED BY <1>2, <1>3, <1>4, <2>1 DEF Learned, Below
<1>6. Learned(i, r) /\ doc'[i] = doc[i]
  BY <1>1, <1>3, SameLearned DEF Same
<1>7. Database(r)'
  <2>1. Covers(doc'[r], clk'[r])
    BY <1>1, <1>2, <1>3, <1>4, CoversMore DEF Databases, Database
  <2> QED BY <1>1, <1>2, <1>4, <1>5, <2>1, LearnedDatabase
<1>8. \A x \in Device : x # r => Database(x)'
  BY <1>2, <1>3, SameDatabase
<1> QED BY <1>1, <1>2, <1>3, <1>5, <1>6, <1>7, <1>8 DEF Effect, Databases, AtResponder

LEMMA MergeClocksEffect ==
    ASSUME Typed, Typed', Databases, NEW s \in Session, SessionContent(s), MergeClocks(s)
    PROVE  Effect(s)
<1> DEFINE i == s[1]
           r == s[2]
           remote == session[s].rows
<1>1. i \in Device /\ r \in Device /\ i # r /\ Ends(s) = {i, r}
  BY SessionEnds DEF Ends
<1>2. session[s].phase = "clocksR" /\ UNCHANGED <<has, doc, issued, view, save>>
  BY DEF MergeClocks
<1>3. \A x \in Device : x # r => Same(x)
  BY <1>2, MergedRows DEF Same
<1>4. has[r] /\ Covers(doc[r], remote) /\ remote \in Table /\ clk[r] \in Table /\ clk'[r] \in Table
  BY <1>1, <1>2, ClocksRead, SessionFields DEF Typed, TypeOK
<1>5. Learned(r, i)
  <2>1. \A x \in Device : /\ clk[r][x] <= clk'[r][x]
                          /\ clk'[r][x] = clk[r][x] \/ clk'[r][x] <= clk[i][x]
    BY <1>2, ClocksRead, MergedRows
  <2> QED BY <1>2, <1>4, <2>1 DEF Learned, Below
<1>6. Learned(i, r) /\ doc'[i] = doc[i]
  BY <1>1, <1>3, SameLearned DEF Same
<1>7. Database(r)'
  <2>1. \A x \in Device : clk'[r][x] <= clk[r][x] \/ clk'[r][x] <= remote[x]
    BY <1>2, ClocksRead, MergedRows
  <2>2. Covers(doc'[r], clk'[r])
    BY <1>1, <1>2, <1>4, <2>1, CoversFrom DEF Databases, Database
  <2> QED BY <1>1, <1>2, <1>4, <1>5, <2>2, LearnedDatabase
<1>8. \A x \in Device : x # r => Database(x)'
  BY <1>2, <1>3, SameDatabase
<1> QED BY <1>1, <1>2, <1>3, <1>5, <1>6, <1>7, <1>8 DEF Effect, Databases, AtResponder

LEMMA AcceptClocksEffect ==
    ASSUME Typed, Typed', Databases, NEW s \in Session, SessionContent(s), AcceptClocks(s)
    PROVE  Effect(s)
<1> DEFINE i == s[1]
           r == s[2]
           rows == session[s].rows
           add == session[s].add
<1>1. i \in Device /\ r \in Device /\ i # r /\ Ends(s) = {i, r}
  BY SessionEnds DEF Ends
<1>2. /\ session[s].phase = "clockResponse" /\ Free(s, i)
      /\ UNCHANGED <<has, doc, issued, view, save>>
      /\ \/ clk' = [clk EXCEPT ![i] = clk[i]]
         \/ CanAdd(clk[i], add) /\ clk' = [clk EXCEPT ![i] = WriteRows(clk[i], rows, add)]
  BY DEF AcceptClocks
<1>3. \A x \in Device : x # i => Same(x)
  BY <1>1, <1>2 DEF Same, Typed, TypeOK
<1>4. /\ clk[i] \in Table /\ clk'[i] \in Table /\ clk[r] \in Table
      /\ rows \in Table /\ add \in Table
      /\ clk'[i] = clk[i] \/ (CanAdd(clk[i], add) /\ clk'[i] = WriteRows(clk[i], rows, add))
  BY <1>1, <1>2, SessionFields DEF Typed, TypeOK
<1>5. /\ has[i] /\ Covers(doc[i], rows) /\ Covers(doc[i], add) /\ Below(add, clk[r])
      /\ \A e \in Device : HasRow(rows, e) => clk[i][e] <= rows[e] /\ rows[e] = clk[r][e]
  BY <1>2 DEF SessionContent, Content, Merging, MergeState
<1> HIDE DEF i, r, rows, add
<1>6. \A e \in Device : /\ clk[i][e] \in Int /\ clk'[i][e] \in Int /\ clk[r][e] \in Int
                        /\ rows[e] \in Int /\ add[e] \in Int
                        /\ -1 <= clk[i][e] /\ -1 <= add[e]
  BY <1>4, RowInt
<1>7. ASSUME NEW e \in Device
      PROVE  /\ clk[i][e] <= clk'[i][e]
             /\ clk'[i][e] = clk[i][e] \/ (clk'[i][e] <= clk[r][e] /\
                                           (clk'[i][e] = rows[e] \/ clk'[i][e] = add[e]))
  <2>1. CASE clk'[i] = clk[i]
    BY <1>6, <2>1
  <2>2. CASE CanAdd(clk[i], add) /\ clk'[i] = WriteRows(clk[i], rows, add)
    <3>1. clk'[i][e] = IF e \in Rows(add) THEN add[e]
                       ELSE IF e \in Rows(rows) \cap Rows(clk[i]) THEN rows[e] ELSE clk[i][e]
      BY <2>2 DEF WriteRows
    <3>2. CASE e \in Rows(add)
      <4>1. e \notin Rows(clk[i])
        BY <2>2, <3>2 DEF CanAdd
      <4>2. clk[i][e] = -1
        BY <4>1 DEF Rows, HasRow, Absent
      <4> QED BY <1>5, <1>6, <3>1, <3>2, <4>2 DEF Below
    <3>3. CASE e \notin Rows(add) /\ e \in Rows(rows) \cap Rows(clk[i])
      BY <1>5, <1>6, <3>1, <3>3 DEF Rows
    <3>4. CASE e \notin Rows(add) /\ e \notin Rows(rows) \cap Rows(clk[i])
      BY <1>6, <3>1, <3>4
    <3> QED BY <3>2, <3>3, <3>4
  <2> QED BY <1>4, <2>1, <2>2
<1>8. Learned(i, r)
  BY <1>2, <1>5, <1>7 DEF Learned, Below
<1>9. Learned(r, i) /\ OnlyZeros(r) /\ doc'[r] = doc[r]
  BY <1>1, <1>3, SameLearned DEF Same, i, r
<1>10. Covers(doc'[i], clk'[i])
  <2>1. ASSUME NEW e \in Device, NEW n \in 1 .. clk'[i][e]
        PROVE  <<e, n>> \in doc[i]
    <3>1. Covers(doc[i], clk[i])
      BY <1>1 DEF Databases, Database
    <3>2. clk'[i][e] = clk[i][e] \/ clk'[i][e] = rows[e] \/ clk'[i][e] = add[e]
      BY <1>7
    <3> QED BY <1>5, <2>1, <3>1, <3>2 DEF Covers
  <2> QED BY <1>2, <2>1 DEF Covers
<1> USE DEF i, r
<1>11. Database(i)'
  BY <1>1, <1>2, <1>5, <1>8, <1>10, LearnedDatabase
<1>12. \A x \in Device : x # i => Database(x)'
  BY <1>2, <1>3, SameDatabase
<1> QED BY <1>1, <1>2, <1>3, <1>8, <1>9, <1>11, <1>12 DEF Effect, Databases

\* A copy that arrives is the sender's document, with rows that it covers.
LEMMA ReceiveCopyEffect ==
    ASSUME Typed, Typed', Databases, NEW s \in Session, SessionContent(s), ReceiveCopy(s)
    PROVE  Effect(s)
<1>1. PICK d \in Device, e \in Device :
          /\ d = Receiver(s) /\ e = Sender(s) /\ d # e /\ Ends(s) = {d, e}
          /\ (d = s[1] /\ e = s[2]) \/ (d = s[2] /\ e = s[1])
  BY SessionEnds DEF Sender, Receiver, Ends
<1> DEFINE upd == session[s].upd
           rows == session[s].rows
           new == [x \in Device |-> IF HasRow(clk[d], x) THEN clk[d][x] ELSE rows[x]]
<1>2. /\ Free(s, d) /\ UNCHANGED <<issued, view, save>>
      /\ has' = [has EXCEPT ![d] = TRUE]
      /\ doc' = [doc EXCEPT ![d] = IF has[d] THEN @ ELSE upd]
      /\ clk' = [clk EXCEPT ![d] = new] \/ (has[d] /\ clk' = clk)
  BY <1>1 DEF ReceiveCopy
<1>3. /\ has[e] /\ (has[d] => doc[e] \subseteq doc[d]) /\ upd \subseteq doc[e]
      /\ ~has[d] => doc[e] \subseteq upd
      /\ Covers(upd, rows) /\ Below(rows, clk[e]) /\ Listed(rows)
  BY <1>1 DEF ReceiveCopy, Sender, Receiver, SessionContent, Content, CopyState
<1>4. /\ clk[d] \in Table /\ clk'[d] \in Table /\ clk[e] \in Table /\ rows \in Table
      /\ has[d] \in BOOLEAN
  BY <1>1, SessionFields DEF Typed, TypeOK
<1> HIDE DEF upd, rows
<1>5. \A x \in Device : /\ clk[d][x] \in Int /\ clk'[d][x] \in Int /\ clk[e][x] \in Int
                        /\ rows[x] \in Int /\ -1 <= rows[x]
                        /\ HasRow(clk[d], x) \/ clk[d][x] = -1
  BY <1>4, RowInt
<1>6. /\ \A x \in Device : x # d => Same(x)
      /\ has'[d] /\ doc'[d] = (IF has[d] THEN doc[d] ELSE upd)
      /\ clk'[d] = new \/ (has[d] /\ clk'[d] = clk[d])
  BY <1>2 DEF Same, Typed, TypeOK
<1>7. ~has[d] => doc[d] = {} /\ clk[d] = NoRows /\ issued[d] = 0
  BY DEF Databases, Database
<1>8. \A x \in Device : /\ clk[d][x] <= clk'[d][x]
                        /\ clk'[d][x] = clk[d][x] \/ clk'[d][x] = rows[x]
  BY <1>5, <1>6
<1>9. \A x \in Device : rows[x] <= clk[e][x]
  BY <1>3 DEF Below
<1>10. Learned(d, e)
  <2>1. doc[d] \subseteq doc'[d] /\ doc'[d] \subseteq doc[d] \cup doc[e]
    BY <1>3, <1>6, <1>7
  <2>2. ~has[d] => doc[e] \subseteq doc'[d]
    BY <1>3, <1>6
  <2>3. \A x \in Device : clk'[d][x] = clk[d][x] \/ clk'[d][x] <= clk[e][x] \/ clk'[d][x] <= 0
    BY <1>8, <1>9
  <2> QED BY <1>6, <1>8, <2>1, <2>2, <2>3 DEF Learned, Below
<1>11. Learned(e, d) /\ OnlyZeros(e) /\ doc'[e] = doc[e]
  BY <1>1, <1>6, SameLearned DEF Same
<1>12. Covers(doc'[d], clk'[d])
  <2>1. Covers(doc'[d], rows) /\ Covers(doc'[d], clk[d])
    <3>1. upd \subseteq doc'[d] /\ doc[d] \subseteq doc'[d] /\ Covers(doc[d], clk[d])
      BY <1>3, <1>6, <1>7 DEF Databases, Database
    <3> QED BY <1>3, <3>1, CoversMore
  <2>2. \A x \in Device : clk'[d][x] <= clk[d][x] \/ clk'[d][x] <= rows[x] \/ clk'[d][x] <= 0
    BY <1>5, <1>8
  <2> QED BY <1>4, <2>1, <2>2, CoversFrom
<1>13. ASSUME ~has[d]
       PROVE  Database(d)'
  <2>1. \A x \in Device : clk'[d][x] = rows[x]
    BY <1>6, <1>7, <1>13 DEF NoRows, HasRow
  <2>2. PICK x \in Device : HasRow(rows, x)
    BY <1>3, <1>4, ListedRow
  <2>3. Listed(clk'[d])
    BY <1>4, <2>1, <2>2, ListedRow DEF HasRow
  <2>4. issued'[d] = 0
    BY <1>2, <1>7, <1>13
  <2> QED BY <1>6, <1>12, <2>3, <2>4 DEF Database
<1>14. ASSUME has[d]
       PROVE  Database(d)'
  BY <1>1, <1>2, <1>10, <1>12, <1>14, LearnedDatabase
<1>15. \A x \in Device : x # d => Database(x)'
  BY <1>2, <1>6, SameDatabase
<1> QED BY <1>1, <1>2, <1>6, <1>10, <1>11, <1>13, <1>14, <1>15 DEF Effect, Databases

\* Every step of a session changes at most the databases of its two ends, each
\* by what the other has.
LEMMA ProtocolEffect ==
    ASSUME Typed, Typed', Databases, NEW s \in Session, SessionContent(s),
           StartSync(s) \/ Protocol(s)
    PROVE  Effect(s)
<1>1. ASSUME \/ StartSync(s) \/ CompareManifests(s) \/ SendCopy(s) \/ RequestUpdates(s)
             \/ GenerateUpdates(s) \/ ReadForMerge(s) \/ SendFinal(s) \/ ReadForFinal(s)
             \/ ReadClocks(s)
      PROVE  Effect(s)
  BY <1>1, QuietEffect DEF StartSync, CompareManifests, SendCopy, RequestUpdates, GenerateUpdates,
     ReadForMerge, SendFinal, ReadForFinal, ReadClocks, device
<1> QED BY <1>1, ReadCopyEffect, ReceiveCopyEffect, WriteMergedEffect, WriteFinalEffect,
           MergeClocksEffect, AcceptClocksEffect DEF Protocol

----------------------------------------------------------------------------
(* Sessions stay isolated.                                                 *)

\* Where each step of a session leaves it.
LEMMA NewPhase ==
    ASSUME Typed, NEW s \in Session
    PROVE  /\ StartSync(s) => session'[s].phase = "manifest"
           /\ CompareManifests(s) => session'[s].phase \in {"agreed", "idle", "toI", "toR"}
           /\ ReadCopy(s) =>
                 session'[s].phase = IF Sender(s) = s[1] THEN "readI" ELSE "readR"
           /\ SendCopy(s) =>
                 session'[s].phase = IF Sender(s) = s[1] THEN "copyToR" ELSE "copyToI"
           /\ ReceiveCopy(s) \/ AcceptClocks(s) => session'[s].phase = "idle"
           /\ RequestUpdates(s) => session'[s].phase = "svRequest"
           /\ GenerateUpdates(s) => session'[s].phase = "updResponse"
           /\ ReadForMerge(s) => session'[s].phase = "applyI"
           /\ WriteMerged(s) => session'[s].phase = "mergedI"
           /\ SendFinal(s) => session'[s].phase = "final"
           /\ ReadForFinal(s) => session'[s].phase = "applyR"
           /\ WriteFinal(s) => session'[s].phase = "mergedR"
           /\ ReadClocks(s) => session'[s].phase = "clocksR"
           /\ MergeClocks(s) => session'[s].phase \in {"idle", "clockResponse"}
<1>1. ASSUME StartSync(s)
      PROVE  session'[s].phase = "manifest"
  <2> DEFINE m == [Idle EXCEPT !.phase = "manifest",
                      !.rows = clk[s[1]]]
  <2>1. session'[s] = m
    BY <1>1, BecomesState DEF StartSync
  <2>2. m.phase = "manifest"
    BY DEF Idle
  <2> HIDE DEF m
  <2> QED BY <2>1, <2>2
<1>2. ASSUME ReadCopy(s)
      PROVE  session'[s].phase = IF Sender(s) = s[1] THEN "readI" ELSE "readR"
  <2> DEFINE m == [Idle EXCEPT !.phase = IF Sender(s) = s[1] THEN "readI" ELSE "readR",
                      !.base = doc[Sender(s)]]
  <2>1. session'[s] = m
    BY <1>2, BecomesState DEF ReadCopy
  <2>2. m.phase = (IF Sender(s) = s[1] THEN "readI" ELSE "readR")
    BY DEF Idle
  <2> HIDE DEF m
  <2> QED BY <2>1, <2>2
<1>3. ASSUME SendCopy(s)
      PROVE  session'[s].phase = IF Sender(s) = s[1] THEN "copyToR" ELSE "copyToI"
  <2> DEFINE m == [Idle EXCEPT !.phase = IF Sender(s) = s[1] THEN "copyToR" ELSE "copyToI",
                      !.upd = session[s].base, !.rows = clk[Sender(s)]]
  <2>1. session'[s] = m
    BY <1>3, BecomesState DEF SendCopy
  <2>2. m.phase = (IF Sender(s) = s[1] THEN "copyToR" ELSE "copyToI")
    BY DEF Idle
  <2> HIDE DEF m
  <2> QED BY <2>1, <2>2
<1>4. ASSUME RequestUpdates(s)
      PROVE  session'[s].phase = "svRequest"
  <2> DEFINE m == [Idle EXCEPT !.phase = "svRequest",
                      !.vec = doc[s[1]]]
  <2>1. session'[s] = m
    BY <1>4, BecomesState DEF RequestUpdates
  <2>2. m.phase = "svRequest"
    BY DEF Idle
  <2> HIDE DEF m
  <2> QED BY <2>1, <2>2
<1>5. ASSUME GenerateUpdates(s)
      PROVE  session'[s].phase = "updResponse"
  <2> DEFINE m == [Idle EXCEPT !.phase = "updResponse",
                      !.upd = doc[s[2]] \ session[s].vec, !.vec = doc[s[2]]]
  <2>1. session'[s] = m
    BY <1>5, BecomesState DEF GenerateUpdates
  <2>2. m.phase = "updResponse"
    BY DEF Idle
  <2> HIDE DEF m
  <2> QED BY <2>1, <2>2
<1>6. ASSUME ReadForMerge(s)
      PROVE  session'[s].phase = "applyI"
  <2> DEFINE m == [session[s] EXCEPT !.phase = "applyI",
                            !.base = doc[s[1]] \cup session[s].upd]
  <2>1. session'[s] = m
    BY <1>6, BecomesState DEF ReadForMerge
  <2>2. m.phase = "applyI"
    BY SessionFields DEF SessionState
  <2> HIDE DEF m
  <2> QED BY <2>1, <2>2
<1>7. ASSUME WriteMerged(s)
      PROVE  session'[s].phase = "mergedI"
  <2> DEFINE m == [session[s] EXCEPT !.phase = "mergedI"]
  <2>1. session'[s] = m
    BY <1>7, BecomesState DEF WriteMerged
  <2>2. m.phase = "mergedI"
    BY SessionFields DEF SessionState
  <2> HIDE DEF m
  <2> QED BY <2>1, <2>2
<1>8. ASSUME SendFinal(s)
      PROVE  session'[s].phase = "final"
  <2> DEFINE m == [Idle EXCEPT !.phase = "final",
                      !.upd = session[s].base \ session[s].vec, !.rows = clk[s[1]]]
  <2>1. session'[s] = m
    BY <1>8, BecomesState DEF SendFinal
  <2>2. m.phase = "final"
    BY DEF Idle
  <2> HIDE DEF m
  <2> QED BY <2>1, <2>2
<1>9. ASSUME ReadForFinal(s)
      PROVE  session'[s].phase = "applyR"
  <2> DEFINE m == [session[s] EXCEPT !.phase = "applyR",
                            !.base = doc[s[2]] \cup session[s].upd]
  <2>1. session'[s] = m
    BY <1>9, BecomesState DEF ReadForFinal
  <2>2. m.phase = "applyR"
    BY SessionFields DEF SessionState
  <2> HIDE DEF m
  <2> QED BY <2>1, <2>2
<1>10. ASSUME WriteFinal(s)
      PROVE  session'[s].phase = "mergedR"
  <2> DEFINE m == [session[s] EXCEPT !.phase = "mergedR"]
  <2>1. session'[s] = m
    BY <1>10, BecomesState DEF WriteFinal
  <2>2. m.phase = "mergedR"
    BY SessionFields DEF SessionState
  <2> HIDE DEF m
  <2> QED BY <2>1, <2>2
<1>11. ASSUME ReadClocks(s)
      PROVE  session'[s].phase = "clocksR"
  <2> DEFINE m == [Idle EXCEPT !.phase = "clocksR",
                      !.rows = session[s].rows, !.local = clk[s[2]]]
  <2>1. session'[s] = m
    BY <1>11, BecomesState DEF ReadClocks
  <2>2. m.phase = "clocksR"
    BY DEF Idle
  <2> HIDE DEF m
  <2> QED BY <2>1, <2>2
<1>12. ASSUME ReceiveCopy(s) \/ AcceptClocks(s)
       PROVE  session'[s].phase = "idle"
  BY <1>12, BecomesState DEF ReceiveCopy, AcceptClocks, Idle
<1>13. ASSUME CompareManifests(s)
       PROVE  session'[s].phase \in {"agreed", "idle", "toI", "toR"}
  <2>1. PICK p \in {"agreed", "idle", "toI", "toR"} : Becomes(s, [Idle EXCEPT !.phase = p])
    BY <1>13 DEF CompareManifests
  <2>2. session'[s] = [Idle EXCEPT !.phase = p] /\ [Idle EXCEPT !.phase = p].phase = p
    BY <2>1, BecomesState DEF Idle
  <2> QED BY <2>2
<1>14. ASSUME MergeClocks(s)
       PROVE  session'[s].phase \in {"idle", "clockResponse"}
  <2> DEFINE m == [Idle EXCEPT !.phase = "clockResponse",
                               !.rows = UpdateRemote(session[s].local, session[s].rows),
                               !.add = AddRemote(session[s].local, session[s].rows)]
  <2>1. session'[s] = Idle \/ session'[s] = m
    BY <1>14, BecomesState DEF MergeClocks
  <2>2. m.phase = "clockResponse" /\ Idle.phase = "idle"
    BY DEF Idle
  <2> HIDE DEF m
  <2> QED BY <2>1, <2>2
<1> QED BY <1>1, <1>2, <1>3, <1>4, <1>5, <1>6, <1>7, <1>8, <1>9, <1>10, <1>11, <1>12, <1>13, <1>14

\* A session enters a handler only where no other one of its connection is.
LEMMA ProtocolStep ==
    ASSUME Typed, NEW s \in Session, Protocol(s)
    PROVE  /\ Busy(s) /\ UNCHANGED <<view, editor, save, issued>>
           /\ \A t \in Session : t # s => session'[t] = session[t]
           /\ session'[s].phase \in AtInitiator
                => session[s].phase \in AtInitiator \/ Free(s, s[1])
           /\ session'[s].phase \in AtResponder
                => session[s].phase \in AtResponder \/ Free(s, s[2])
<1>1. \A t \in Session : t # s => session'[t] = session[t]
  BY BecomesState DEF Protocol, CompareManifests, ReadCopy, SendCopy, ReceiveCopy, RequestUpdates,
     GenerateUpdates, ReadForMerge, WriteMerged, SendFinal, ReadForFinal, WriteFinal, ReadClocks,
     MergeClocks, AcceptClocks
<1>2. UNCHANGED <<view, editor, save, issued>>
  BY DEF Protocol, CompareManifests, ReadCopy, SendCopy, ReceiveCopy, RequestUpdates,
     GenerateUpdates, ReadForMerge, WriteMerged, SendFinal, ReadForFinal, WriteFinal, ReadClocks,
     MergeClocks, AcceptClocks, device
<1>3. Busy(s)
  BY DEF Busy, Protocol, CompareManifests, ReadCopy, SendCopy, ReceiveCopy, RequestUpdates,
     GenerateUpdates, ReadForMerge, WriteMerged, SendFinal, ReadForFinal, WriteFinal, ReadClocks,
     MergeClocks, AcceptClocks
<1>4. CASE \/ CompareManifests(s) \/ SendCopy(s) \/ ReceiveCopy(s) \/ RequestUpdates(s)
           \/ GenerateUpdates(s) \/ SendFinal(s) \/ MergeClocks(s) \/ AcceptClocks(s)
  <2>1. session'[s].phase \notin AtInitiator \cup AtResponder
    BY <1>4, NewPhase DEF AtInitiator, AtResponder
  <2> QED BY <1>1, <1>2, <1>3, <2>1
<1>5. CASE ReadCopy(s)
  <2>1. /\ session'[s].phase = (IF Sender(s) = s[1] THEN "readI" ELSE "readR")
        /\ Free(s, Sender(s)) /\ Sender(s) \in {s[1], s[2]}
    BY <1>5, NewPhase DEF ReadCopy, Sender
  <2> QED BY <1>1, <1>2, <1>3, <2>1 DEF AtInitiator, AtResponder
<1>6. CASE ReadForMerge(s) \/ ReadForFinal(s)
  BY <1>1, <1>2, <1>3, <1>6, NewPhase DEF ReadForMerge, ReadForFinal, AtInitiator, AtResponder
<1>7. CASE WriteMerged(s) \/ WriteFinal(s) \/ ReadClocks(s)
  BY <1>1, <1>2, <1>3, <1>7, NewPhase
     DEF WriteMerged, WriteFinal, ReadClocks, AtInitiator, AtResponder
<1> QED BY <1>4, <1>5, <1>6, <1>7 DEF Protocol

\* Sessions that end, or go on where they are, stay isolated.
LEMMA FewerIsolated ==
    ASSUME SessionsIsolated, OneHandler, UNCHANGED <<view, save>>,
           \A s \in Session : session'[s] = session[s] \/ session'[s].phase = "idle"
    PROVE  SessionsIsolated' /\ OneHandler'
BY DEF SessionsIsolated, OneHandler, Busy, AtInitiator, AtResponder, Ends, Conn

LEMMA ProtocolIsolated ==
    ASSUME Typed, SessionsIsolated, OneHandler, NEW s \in Session, Protocol(s)
    PROVE  SessionsIsolated' /\ OneHandler'
<1>1. \A t \in Session : Busy(t)' => Busy(t)
  BY ProtocolStep DEF Busy
<1>2. SessionsIsolated'
  BY <1>1, ProtocolStep DEF SessionsIsolated, Ends, Conn
<1>3. ASSUME NEW t \in Session, t # s, Conn(t) = Conn(s)
      PROVE  /\ ~(session'[s].phase \in AtInitiator /\ session'[t].phase \in AtInitiator)
             /\ ~(session'[s].phase \in AtResponder /\ session'[t].phase \in AtResponder)
  <2>1. session'[t] = session[t]
    BY <1>3, ProtocolStep
  <2>2. Free(s, s[1]) => session[t].phase \notin AtInitiator
    BY <1>3 DEF Free
  <2>3. Free(s, s[2]) => session[t].phase \notin AtResponder
    BY <1>3, SessionEnds DEF Free
  <2> QED BY <1>3, <2>1, <2>2, <2>3, ProtocolStep DEF OneHandler
<1>4. OneHandler'
  BY <1>3, ProtocolStep DEF OneHandler, Conn
<1> QED BY <1>2, <1>4

LEMMA StartIsolated ==
    ASSUME ~Overlap, Typed, SessionsIsolated, OneHandler, NEW s \in Session, StartSync(s)
    PROVE  SessionsIsolated' /\ OneHandler'
<1>1. /\ session'[s].phase = "manifest" /\ UNCHANGED <<view, save>>
      /\ \A t \in Session : t # s => session'[t] = session[t]
  BY NewPhase, BecomesState DEF StartSync, device
<1>2. /\ \A t \in Session : Busy(t) /\ Ends(t) \cap Ends(s) # {} => Conn(t) = Conn(s)
      /\ \A d \in Ends(s) : save[d] = NoSave /\ view[d] # "loading"
  BY DEF StartSync, MayStart
<1>3. \A t \in Session : t # s => (Busy(t)' <=> Busy(t))
  BY <1>1 DEF Busy
<1>4. SessionsIsolated'
  BY <1>1, <1>2, <1>3 DEF SessionsIsolated, Ends, Conn
<1>5. OneHandler'
  BY <1>1 DEF OneHandler, AtInitiator, AtResponder, Conn
<1> QED BY <1>4, <1>5

\* A session that does not take the step keeps its content right.
LEMMA OthersContent ==
    ASSUME Typed, Typed', Databases, SessionsIsolated, OneHandler,
           NEW t \in Session, Busy(t), Effect(t),
           NEW s \in Session, s # t, session'[s] = session[s], SessionContent(s)
    PROVE  SessionContent(s)'
<1>1. CASE ~Busy(s)
  BY <1>1 DEF Busy, SessionContent, Content, Merging
<1>2. CASE Busy(s) /\ Ends(s) \cap Ends(t) = {}
  <2>1. Same(s[1]) /\ Same(s[2])
    BY <1>2, SessionEnds DEF Effect, Ends
  <2>2. Frame(s)
    BY <2>1, SameLearned, SessionEnds DEF Frame, Same
  <2> QED BY <2>2, FramedSession
<1>3. CASE Busy(s) /\ Ends(s) \cap Ends(t) # {}
  <2>1. Conn(s) = Conn(t) /\ s[1] = t[1] /\ s[2] = t[2] /\ s[1] # s[2]
    BY <1>3, SessionEnds DEF SessionsIsolated, Conn
  <2>2. session[s].phase \in AtInitiator => session[t].phase \notin AtInitiator /\ ~Free(t, t[1])
    BY <2>1 DEF OneHandler, Free
  <2>3. session[s].phase \in AtResponder => session[t].phase \notin AtResponder /\ ~Free(t, t[2])
    BY <2>1 DEF OneHandler, Free
  <2>4. Frame(s)
    BY <2>1, <2>2, <2>3 DEF Frame, Effect
  <2> QED BY <2>4, FramedSession
<1> QED BY <1>1, <1>2, <1>3

----------------------------------------------------------------------------
(* The editors follow.                                                     *)

\* Nothing about d changes.
LEMMA SameEditor ==
    ASSUME NEW d \in Device, Editor(d), doc'[d] = doc[d], inbox'[d] = inbox[d],
           editor'[d] = editor[d], view'[d] = view[d], save'[d] = save[d], issued'[d] = issued[d],
           Unemitted(d) \subseteq Unemitted(d)'
    PROVE  Editor(d)'
BY DEF Editor

\* A merge or a copy reaches d while it neither saves nor loads.
LEMMA MergedEditor ==
    ASSUME NEW d \in Device, Editor(d), save[d] = NoSave, view[d] # "loading",
           editor'[d] = editor[d], view'[d] = view[d], save'[d] = save[d],
           doc[d] \subseteq doc'[d], inbox[d] \subseteq inbox'[d],
           \A u \in inbox'[d] : u \subseteq doc'[d],
           Unemitted(d) \subseteq Unemitted(d)' \cup (UNION inbox'[d]),
           view[d] # "closed" => doc'[d] \subseteq doc[d] \cup (UNION inbox'[d]) \cup Unemitted(d)'
    PROVE  Editor(d)'
<1>1. NoSave.step = "none"
  BY DEF NoSave
<1>2. (UNION inbox[d]) \subseteq (UNION inbox'[d])
  OBVIOUS
<1>3. view[d] # "closed" => doc'[d] \subseteq editor[d] \cup (UNION inbox'[d]) \cup Unemitted(d)'
  BY <1>2 DEF Editor
<1> QED BY <1>1, <1>3 DEF Editor

\* What is not yet emitted stays so until its handler emits it.
LEMMA StillUnemitted ==
    ASSUME NEW s \in Session, \A t \in Session : t # s => session'[t] = session[t],
           NEW d \in Device, s[1] # d \/ session[s].phase # "mergedI"
    PROVE  Unemitted(d) \subseteq Unemitted(d)'
BY DEF Unemitted

LEMMA ProtocolEditor ==
    ASSUME Typed, Typed', Databases, SessionsIsolated, \A d \in Device : Editor(d),
           NEW s \in Session, SessionContent(s), Protocol(s)
    PROVE  \A d \in Device : Editor(d)'
<1> DEFINE i == s[1]
           r == s[2]
<1>1. i \in Device /\ r \in Device /\ i # r /\ Ends(s) = {i, r}
  BY SessionEnds DEF Ends
<1>2. /\ \A t \in Session : t # s => session'[t] = session[t]
      /\ UNCHANGED <<view, editor, save, issued>>
      /\ \A d \in {i, r} : save[d] = NoSave /\ view[d] # "loading"
  BY <1>1, ProtocolStep DEF SessionsIsolated
<1>3. Effect(s)
  BY ProtocolEffect
<1>4. doc[i] \subseteq doc'[i] /\ doc[r] \subseteq doc'[r]
  BY <1>3 DEF Effect, Learned
<1>5. inbox \in [Device -> SUBSET SUBSET Edit] /\ doc \in [Device -> SUBSET Edit]
      /\ doc' \in [Device -> SUBSET Edit]
  BY DEF Typed, TypeOK
<1>6. CASE SendFinal(s)
  <2>1. /\ doc' = doc /\ session[s].phase = "mergedI"
        /\ inbox' = [inbox EXCEPT ![i] = IF session[s].upd = {} THEN @ ELSE @ \cup {session[s].upd}]
    BY <1>6 DEF SendFinal, Emit
  <2>2. session[s].upd \subseteq doc[i]
    BY <2>1 DEF SessionContent, Content, Merging, MergeState
  <2>3. ASSUME NEW d \in Device, d # i
        PROVE  Editor(d)'
    BY <1>2, <2>1, <2>3, StillUnemitted, SameEditor
  <2>4. inbox[i] \subseteq inbox'[i] /\ session[s].upd \subseteq (UNION inbox'[i])
    BY <1>1, <1>5, <2>1
  <2>5. \A u \in inbox'[i] : u \subseteq doc'[i]
    BY <1>1, <1>5, <2>1, <2>2 DEF Editor
  <2>6. Unemitted(i) \subseteq Unemitted(i)' \cup (UNION inbox'[i])
    <3> SUFFICES ASSUME NEW edit \in Unemitted(i), edit \notin (UNION inbox'[i])
                 PROVE  edit \in Unemitted(i)'
      OBVIOUS
    <3>1. PICK t \in Session : t[1] = i /\ session[t].phase = "mergedI" /\ edit \in session[t].upd
      BY DEF Unemitted
    <3>2. t # s
      BY <2>4, <3>1
    <3> QED BY <1>2, <3>1, <3>2 DEF Unemitted
  <2>7. Editor(i)'
    BY <1>1, <1>2, <2>1, <2>4, <2>5, <2>6, MergedEditor
  <2> QED BY <2>3, <2>7
<1>7. CASE WriteMerged(s)
  <2>1. /\ doc' = [doc EXCEPT ![i] = session[s].base] /\ inbox' = inbox
        /\ session[s].phase = "applyI" /\ session'[s] = [session[s] EXCEPT !.phase = "mergedI"]
    BY <1>7, BecomesState DEF WriteMerged
  <2>2. session[s].base = doc[i] \cup session[s].upd
    BY <2>1 DEF SessionContent, Content, Merging, MergeState
  <2>3. ASSUME NEW d \in Device, d # i
        PROVE  Editor(d)'
    BY <1>2, <1>5, <2>1, <2>3, StillUnemitted, SameEditor
  <2>4. session'[s].phase = "mergedI" /\ session'[s].upd = session[s].upd
    BY <2>1, SessionFields DEF SessionState
  <2>5. session[s].upd \subseteq Unemitted(i)'
    BY <2>4, SessionFields DEF Unemitted
  <2>6. doc'[i] = doc[i] \cup session[s].upd
    BY <1>1, <1>5, <2>1, <2>2
  <2>7. \A u \in inbox'[i] : u \subseteq doc'[i]
    BY <1>1, <2>1, <2>6 DEF Editor
  <2>8. Unemitted(i) \subseteq Unemitted(i)'
    BY <1>1, <1>2, <2>1, StillUnemitted
  <2>9. inbox'[i] = inbox[i] /\ doc[i] \subseteq doc'[i]
    BY <2>1, <1>4
  <2>10. /\ doc'[i] \subseteq doc[i] \cup (UNION inbox'[i]) \cup Unemitted(i)'
         /\ Unemitted(i) \subseteq Unemitted(i)' \cup (UNION inbox'[i])
    BY <2>5, <2>6, <2>8
  <2>11. Editor(i)'
    BY <1>1, <1>2, <2>7, <2>9, <2>10, MergedEditor
  <2> QED BY <2>3, <2>11
<1>8. CASE WriteFinal(s)
  <2>1. /\ doc' = [doc EXCEPT ![r] = session[s].base] /\ session[s].phase = "applyR"
        /\ inbox' = [inbox EXCEPT ![r] = IF session[s].upd = {} THEN @ ELSE @ \cup {session[s].upd}]
    BY <1>8 DEF WriteFinal, Emit
  <2>2. session[s].base = doc[r] \cup session[s].upd
    BY <2>1 DEF SessionContent, Content, Merging, MergeState
  <2>3. ASSUME NEW d \in Device, d # r
        PROVE  Editor(d)'
    BY <1>2, <1>5, <2>1, <2>3, StillUnemitted, SameEditor
  <2>4. inbox[r] \subseteq inbox'[r] /\ session[s].upd \subseteq (UNION inbox'[r])
    BY <1>1, <1>5, <2>1
  <2>5. doc'[r] = doc[r] \cup session[s].upd
    BY <1>1, <1>5, <2>1, <2>2
  <2>6. \A u \in inbox'[r] : u \subseteq doc'[r]
    BY <1>1, <1>5, <2>1, <2>5 DEF Editor
  <2>7. Unemitted(r) \subseteq Unemitted(r)'
    BY <1>1, <1>2, StillUnemitted
  <2>8. Editor(r)'
    BY <1>1, <1>2, <1>4, <2>4, <2>5, <2>6, <2>7, MergedEditor
  <2> QED BY <2>3, <2>8
<1>9. CASE ReceiveCopy(s)
  <2>1. /\ inbox' = inbox /\ session[s].phase # "mergedI"
        /\ Receiver(s) \in {i, r}
        /\ doc' = [doc EXCEPT ![Receiver(s)] = IF has[Receiver(s)] THEN @ ELSE session[s].upd]
    BY <1>9 DEF ReceiveCopy, Receiver, Sender
  <2>2. ASSUME NEW d \in Device
        PROVE  Editor(d)'
    <3>1. Unemitted(d) \subseteq Unemitted(d)'
      BY <1>2, <2>1, StillUnemitted
    <3>2. CASE doc'[d] = doc[d]
      BY <1>2, <2>1, <3>1, <3>2, SameEditor
    <3>3. CASE doc'[d] # doc[d]
      <4>1. d \in {i, r} /\ ~has[d]
        BY <1>5, <2>1, <3>3
      <4>2. view[d] = "closed" /\ doc[d] \subseteq doc'[d]
        BY <1>4, <4>1 DEF Databases, Database
      <4>3. \A u \in inbox'[d] : u \subseteq doc'[d]
        BY <2>1, <4>2 DEF Editor
      <4> QED BY <1>2, <2>1, <3>1, <4>1, <4>2, <4>3, MergedEditor
    <3> QED BY <3>2, <3>3
  <2> QED BY <2>2
<1>10. CASE \/ CompareManifests(s) \/ ReadCopy(s) \/ SendCopy(s) \/ RequestUpdates(s)
            \/ GenerateUpdates(s) \/ ReadForMerge(s) \/ ReadForFinal(s) \/ ReadClocks(s)
            \/ MergeClocks(s) \/ AcceptClocks(s)
  <2>1. UNCHANGED <<doc, inbox>> /\ session[s].phase # "mergedI"
    BY <1>10 DEF CompareManifests, ReadCopy, SendCopy, RequestUpdates, GenerateUpdates,
       ReadForMerge, ReadForFinal, ReadClocks, MergeClocks, AcceptClocks, device
  <2> QED BY <1>2, <2>1, StillUnemitted, SameEditor
<1> QED BY <1>6, <1>7, <1>8, <1>9, <1>10 DEF Protocol

----------------------------------------------------------------------------
(* Steps of the editor and the save.                                       *)

\* No session of d: nothing of its is unemitted.
LEMMA NothingUnemitted ==
    ASSUME NEW d \in Device, \A s \in Session : d \in Ends(s) => ~Busy(s)
    PROVE  Unemitted(d) = {}
BY DEF Unemitted, Ends, Busy

LEMMA EditingEditor ==
    ASSUME ~Overlap, Typed, Databases, SessionsIsolated, \A x \in Device : Editor(x),
           NEW d \in Device, Editing(d)
    PROVE  \A x \in Device : Editor(x)'
<1>1. session' = session
  BY DEF Editing, Load, Show, Close, TakeUpdates, SaveTake, SaveWrite, SaveIncrement, Share
<1>2. \A x \in Device : Unemitted(x)' = Unemitted(x)
  BY <1>1 DEF Unemitted
<1>3. /\ view \in [Device -> {"closed", "loading", "shown"}]
      /\ editor \in [Device -> SUBSET Edit] /\ inbox \in [Device -> SUBSET SUBSET Edit]
      /\ doc \in [Device -> SUBSET Edit] /\ save \in [Device -> SaveState]
      /\ issued \in [Device -> 0 .. MaxSaves]
  BY DEF Typed, TypeOK
<1>4. \A x \in Device : x # d =>
          /\ doc'[x] = doc[x] /\ inbox'[x] = inbox[x] /\ editor'[x] = editor[x]
          /\ view'[x] = view[x] /\ save'[x] = save[x] /\ issued'[x] = issued[x]
  BY <1>3 DEF Editing, Load, Show, Close, TakeUpdates, SaveTake, SaveWrite, SaveIncrement, Share
<1>5. \A x \in Device : x # d => Editor(x)'
  BY <1>2, <1>4, SameEditor
<1>6. NoSave.step = "none" /\ Editor(d)
  BY DEF NoSave
<1>7. CASE Load(d)
  <2>1. save[d] = NoSave /\ inbox[d] = {}
    BY <1>7 DEF Load, MayEdit
  <2>2. view'[d] = "loading" /\ editor'[d] = doc[d] /\ UNCHANGED <<doc, inbox, save, issued>>
    BY <1>3, <1>7 DEF Load
  <2>3. Editor(d)'
    BY <1>6, <2>1, <2>2 DEF Editor
  <2> QED BY <1>5, <2>3
<1>8. CASE Show(d)
  <2>1. /\ view[d] = "loading" /\ view'[d] = "shown"
        /\ UNCHANGED <<doc, inbox, save, issued, editor>>
    BY <1>3, <1>8 DEF Show
  <2>2. Editor(d)'
    BY <1>2, <1>6, <2>1 DEF Editor
  <2> QED BY <1>5, <2>2
<1>9. CASE Close(d)
  <2>1. view'[d] = "closed" /\ editor'[d] = {} /\ UNCHANGED <<doc, inbox, save, issued>>
    BY <1>3, <1>9 DEF Close
  <2>2. Editor(d)'
    BY <1>6, <2>1 DEF Editor
  <2> QED BY <1>5, <2>2
<1>10. CASE TakeUpdates(d)
  <2>1. PICK u \in inbox[d] :
           /\ editor' = [editor EXCEPT ![d] = IF view[d] = "shown" THEN @ \cup u ELSE @]
           /\ inbox' = [inbox EXCEPT ![d] = @ \ {u}]
    BY <1>10 DEF TakeUpdates
  <2>2. UNCHANGED <<doc, view, save, issued>>
    BY <1>10 DEF TakeUpdates
  <2>3. u \subseteq doc[d] /\ view[d] # "loading" /\ save[d] = NoSave
    BY <1>6 DEF Editor
  <2>4. /\ inbox'[d] = inbox[d] \ {u}
        /\ editor'[d] = IF view[d] = "shown" THEN editor[d] \cup u ELSE editor[d]
    BY <1>3, <2>1
  <2>5. (UNION inbox[d]) \subseteq u \cup (UNION inbox'[d]) /\ inbox'[d] \subseteq inbox[d]
    BY <2>4
  <2>6. view[d] # "closed" => doc[d] \subseteq editor'[d] \cup (UNION inbox'[d]) \cup Unemitted(d)
    <3>1. view[d] # "closed" => view[d] = "shown"
      BY <1>3, <2>3
    <3> QED BY <1>6, <2>4, <2>5, <3>1 DEF Editor
  <2>7. editor'[d] \subseteq doc[d] /\ \A v \in inbox'[d] : v \subseteq doc[d]
    BY <1>6, <2>3, <2>4, <2>5 DEF Editor
  <2>8. Editor(d)'
    BY <1>2, <1>6, <2>2, <2>3, <2>6, <2>7 DEF Editor
  <2> QED BY <1>5, <2>8
<1>11. CASE SaveTake(d)
  <2> DEFINE data == editor[d] \cup {<<d, issued[d] + 1>>}
  <2>1. /\ view[d] = "shown" /\ save[d] = NoSave /\ inbox[d] = {}
        /\ \A s \in Session : d \in Ends(s) => ~Busy(s)
    BY <1>11 DEF SaveTake, MayEdit
  <2>2. editor[d] = doc[d]
    BY <1>6, <2>1, NothingUnemitted DEF Editor
  <2>3. /\ editor'[d] = data /\ save'[d] = [step |-> "taken", data |-> data]
        /\ UNCHANGED <<doc, view, inbox, issued>>
    BY <1>3, <1>11 DEF SaveTake
  <2>4. save'[d].step = "taken" /\ save'[d].data = data
    BY <2>3
  <2>5. Editor(d)'
    BY <2>1, <2>2, <2>3, <2>4 DEF Editor
  <2> QED BY <1>5, <2>5
<1>12. CASE SaveWrite(d)
  <2>1. save[d].step = "taken" /\ inbox[d] = {} /\ view[d] # "loading"
    BY <1>6, <1>12 DEF SaveWrite, Editor
  <2>2. /\ doc'[d] = save[d].data /\ save' = [save EXCEPT ![d] = [save[d] EXCEPT !.step = "written"]]
        /\ UNCHANGED <<view, editor, inbox>>
    BY <1>3, <1>12 DEF SaveWrite
  <2>3. save'[d].step = "written" /\ save'[d] # NoSave
    BY <1>3, <1>6, <2>2 DEF SaveState
  <2>4. /\ editor[d] \subseteq save[d].data
        /\ view[d] # "closed" => save[d].data \subseteq editor[d]
    BY <1>3, <1>6, <2>1 DEF Editor
  <2>5. Editor(d)'
    BY <2>1, <2>2, <2>3, <2>4 DEF Editor
  <2> QED BY <1>5, <2>5
<1>13. CASE SaveIncrement(d)
  <2>1. save[d].step = "written" /\ save'[d] = NoSave /\ UNCHANGED <<doc, view, editor, inbox>>
    BY <1>3, <1>13 DEF SaveIncrement
  <2>2. Editor(d)'
    BY <1>2, <1>6, <2>1 DEF Editor
  <2> QED BY <1>5, <2>2
<1>14. ASSUME NEW e \in Device, Share(d, e)
       PROVE  Editor(d)'
  BY <1>2, <1>6, <1>14, SameEditor DEF Share
<1> QED BY <1>5, <1>7, <1>8, <1>9, <1>10, <1>11, <1>12, <1>13, <1>14 DEF Editing

LEMMA EditingIsolated ==
    ASSUME ~Overlap, Typed, SessionsIsolated, OneHandler, NEW d \in Device, Editing(d)
    PROVE  SessionsIsolated' /\ OneHandler'
<1>1. session' = session
  BY DEF Editing, Load, Show, Close, TakeUpdates, SaveTake, SaveWrite, SaveIncrement, Share
<1>2. OneHandler'
  BY <1>1 DEF OneHandler
<1>3. view \in [Device -> {"closed", "loading", "shown"}] /\ save \in [Device -> SaveState]
  BY DEF Typed, TypeOK
<1>4. \A x \in Device : x # d => view'[x] = view[x] /\ save'[x] = save[x]
  BY <1>3 DEF Editing, Load, Show, Close, TakeUpdates, SaveTake, SaveWrite, SaveIncrement, Share
<1>5. ASSUME NEW s \in Session, d \in Ends(s), Busy(s)
      PROVE  save'[d] = NoSave /\ view'[d] # "loading"
  <2>1. save[d] = NoSave /\ view[d] # "loading" /\ NoSave.step = "none"
    BY <1>5 DEF SessionsIsolated, NoSave
  <2>2. ~Load(d) /\ ~SaveTake(d)
    BY <1>5 DEF Load, SaveTake, MayEdit
  <2>3. ~SaveWrite(d) /\ ~SaveIncrement(d)
    BY <2>1 DEF SaveWrite, SaveIncrement
  <2>4. save' = save /\ (view'[d] = view[d] \/ view'[d] \in {"closed", "shown"})
    BY <1>3, <2>2, <2>3 DEF Editing, Show, Close, TakeUpdates, Share
  <2> QED BY <2>1, <2>4
<1>6. SessionsIsolated'
  <2>1. \A s \in Session : Busy(s)' <=> Busy(s)
    BY <1>1 DEF Busy
  <2>2. ASSUME NEW s \in Session, NEW x \in Ends(s), Busy(s)
        PROVE  save'[x] = NoSave /\ view'[x] # "loading"
    <3>1. x \in Device
      BY SessionEnds DEF Ends
    <3> QED BY <1>4, <1>5, <2>2, <3>1 DEF SessionsIsolated
  <2> QED BY <2>1, <2>2 DEF SessionsIsolated, Ends, Conn
<1> QED BY <1>2, <1>6

\* A save writes the whole editor, which holds what the database held, and the
\* clock counts it afterwards.
LEMMA EditingDatabase ==
    ASSUME Typed, Typed', UncountedUnknown, Databases, NEW d \in Device, Editor(d), Editing(d)
    PROVE  Databases'
<1>1. /\ view \in [Device -> {"closed", "loading", "shown"}]
      /\ doc \in [Device -> SUBSET Edit] /\ save \in [Device -> SaveState]
      /\ issued \in [Device -> 0 .. MaxSaves] /\ clk \in [Device -> Table]
      /\ clk[d] \in Table /\ clk'[d] \in Table /\ issued[d] \in Nat
  BY BoundAssumption DEF Typed, TypeOK
<1>2. \A x \in Device : x # d =>
          Same(x) /\ view'[x] = view[x] /\ save'[x] = save[x] /\ issued'[x] = issued[x]
  BY <1>1 DEF Same, Editing, Load, Show, Close, TakeUpdates, SaveTake, SaveWrite, SaveIncrement,
     Share
<1>3. \A x \in Device : x # d => Database(x)'
  BY <1>2, SameDatabase
<1>4. Database(d) /\ NoSave.step = "none"
  BY DEF Databases, NoSave
<1>5. ASSUME has[d], has'[d], doc[d] \subseteq doc'[d], Covers(doc'[d], clk'[d]), Listed(clk'[d]),
             \A n \in 1 .. issued'[d] : <<d, n>> \in doc'[d]
      PROVE  Databases'
  BY <1>3, <1>5 DEF Databases, Database
<1>6. CASE Load(d) \/ Show(d) \/ Close(d) \/ TakeUpdates(d) \/ SaveTake(d)
  <2>1. UNCHANGED <<has, doc, clk, issued>>
    BY <1>6 DEF Load, Show, Close, TakeUpdates, SaveTake
  <2>2. CASE has[d]
    BY <1>4, <1>5, <2>1, <2>2 DEF Database
  <2>3. CASE ~has[d]
    <3>1. view[d] = "closed" /\ save[d] = NoSave
      BY <1>4, <2>3 DEF Database
    <3>2. TakeUpdates(d)
      BY <1>6, <2>3, <3>1 DEF Load, Show, Close, SaveTake
    <3>3. view' = view /\ save' = save
      BY <3>2 DEF TakeUpdates
    <3>4. Database(d)'
      BY <2>1, <3>3, SameDatabase DEF Same
    <3> QED BY <1>3, <3>4 DEF Databases
  <2> QED BY <2>2, <2>3
<1>7. CASE SaveWrite(d)
  <2>1. /\ save[d].step = "taken" /\ doc'[d] = save[d].data /\ UNCHANGED <<has, clk>>
        /\ issued'[d] = issued[d] + 1
    BY <1>1, <1>7 DEF SaveWrite
  <2>2. has[d] /\ doc'[d] = doc[d] \cup {<<d, issued[d] + 1>>}
    BY <1>4, <2>1 DEF Database, Editor
  <2>3. Covers(doc'[d], clk'[d])
    BY <1>4, <2>1, <2>2, CoversMore DEF Database
  <2>4. \A n \in 1 .. issued'[d] : <<d, n>> \in doc'[d]
    BY <1>1, <1>4, <2>1, <2>2 DEF Database
  <2> QED BY <1>4, <1>5, <2>1, <2>2, <2>3, <2>4 DEF Database
<1>8. CASE SaveIncrement(d)
  <2>1. /\ save[d].step = "written" /\ UNCHANGED <<has, doc, issued>>
        /\ clk'[d] = Increment(clk[d], d)
    BY <1>1, <1>8 DEF SaveIncrement
  <2>2. has[d]
    BY <1>4, <2>1 DEF Database
  <2>3. clk[d][d] <= issued[d] - 1 /\ 0 < issued[d] /\ clk[d][d] \in Int
    BY <1>1, <2>1, RowInt DEF UncountedUnknown, Counted, Typed, SaveOrdered
  <2>4. clk'[d][d] <= issued[d] /\ clk'[d][d] \in Int /\ clk'[d][d] # Absent
    BY <1>1, <2>1, <2>3 DEF Increment, Table, HasRow, Clock, Absent
  <2>5. \A x \in Device : x # d => clk'[d][x] = clk[d][x]
    BY <1>1, <2>1 DEF Increment, Table
  <2>6. Covers(doc'[d], clk'[d])
    <3> SUFFICES ASSUME NEW x \in Device, NEW n \in 1 .. clk'[d][x] PROVE <<x, n>> \in doc[d]
      BY <2>1 DEF Covers
    <3>1. CASE x = d
      <4>1. n \in 1 .. issued[d]
        BY <1>1, <2>4, <3>1
      <4> QED BY <1>4, <3>1, <4>1 DEF Database
    <3>2. CASE x # d
      BY <1>4, <2>5, <3>2 DEF Database, Covers
    <3> QED BY <3>1, <3>2
  <2>7. Listed(clk'[d])
    BY <1>1, <2>4, ListedRow DEF HasRow
  <2> QED BY <1>4, <1>5, <2>1, <2>2, <2>6, <2>7 DEF Database
<1>9. ASSUME NEW e \in Device, Share(d, e)
      PROVE  Databases'
  <2>1. has[d] /\ UNCHANGED <<has, doc, issued>> /\ clk'[d] = ZeroRow(clk[d], e)
    BY <1>1, <1>9 DEF Share
  <2>2. Learned(d, d) /\ OnlyZeros(d)
    BY <2>1, ZeroLearned
  <2>3. \A x \in Device : clk'[d][x] <= clk[d][x] \/ clk'[d][x] <= 0
    BY <1>1, <2>2, RowInt DEF OnlyZeros
  <2>4. Covers(doc'[d], clk'[d])
    BY <1>1, <1>4, <2>1, <2>3, CoversFrom DEF Database
  <2>5. Database(d)'
    BY <2>1, <2>2, <2>4, LearnedDatabase
  <2> QED BY <1>3, <2>5 DEF Databases
<1> QED BY <1>6, <1>7, <1>8, <1>9 DEF Editing

\* Meanwhile a session on d sees at most a new row with 0.
LEMMA EditingContent ==
    ASSUME ~Overlap, Typed, Typed', Databases, SessionsIsolated, NEW d \in Device, Editing(d),
           NEW s \in Session, SessionContent(s)
    PROVE  SessionContent(s)'
<1>1. session' = session
  BY DEF Editing, Load, Show, Close, TakeUpdates, SaveTake, SaveWrite, SaveIncrement, Share
<1>2. clk \in [Device -> Table] /\ doc \in [Device -> SUBSET Edit]
  BY DEF Typed, TypeOK
<1>3. \A x \in Device : x # d => Same(x)
  BY <1>2 DEF Same, Editing, Load, Show, Close, TakeUpdates, SaveTake, SaveWrite, SaveIncrement,
     Share
<1>4. CASE ~Busy(s)
  BY <1>1, <1>4 DEF Busy, SessionContent, Content, Merging
<1>5. CASE Busy(s) /\ d \notin Ends(s)
  <2>1. Same(s[1]) /\ Same(s[2])
    BY <1>3, <1>5, SessionEnds DEF Ends
  <2>2. Frame(s)
    BY <1>1, <2>1, SameLearned, SessionEnds DEF Frame, Same
  <2> QED BY <2>2, FramedSession
<1>6. CASE Busy(s) /\ d \in Ends(s)
  <2>1. save[d] = NoSave /\ NoSave.step = "none"
    BY <1>6 DEF SessionsIsolated, NoSave
  <2>2. ~Load(d) /\ ~SaveTake(d) /\ ~SaveWrite(d) /\ ~SaveIncrement(d)
    BY <1>6, <2>1 DEF Load, SaveTake, MayEdit, SaveWrite, SaveIncrement
  <2>3. CASE UNCHANGED clk
    <3>1. UNCHANGED <<has, doc>>
      BY <2>2 DEF Editing, Show, Close, TakeUpdates, Share
    <3>2. Frame(s)
      BY <1>1, <2>3, <3>1, SameLearned, SessionEnds DEF Frame, Same
    <3> QED BY <3>2, FramedSession
  <2>4. ASSUME NEW e \in Device, Share(d, e)
        PROVE  SessionContent(s)'
    <3>1. UNCHANGED <<has, doc>> /\ clk'[d] = ZeroRow(clk[d], e)
      BY <1>2, <2>4 DEF Share
    <3>2. \A x, y \in Device : Learned(x, y) /\ OnlyZeros(x)
      BY <1>3, <3>1, SameLearned, ZeroLearned
    <3>3. Frame(s)
      BY <1>1, <3>1, <3>2, SessionEnds DEF Frame
    <3> QED BY <3>3, FramedSession
  <2> QED BY <2>2, <2>3, <2>4 DEF Editing, Show, Close, TakeUpdates
<1> QED BY <1>4, <1>5, <1>6

----------------------------------------------------------------------------
(* Faults, and all together.                                               *)

LEMMA FaultKeeps ==
    ASSUME Typed, IInv,
           \/ \E s \in Session : Drop(s)
           \/ \E d \in Device : Crash(d)
    PROVE  IInv'
<1>1. Idle.phase = "idle" /\ NoSave.step = "none"
  BY DEF Idle, NoSave
<1>2. ASSUME NEW s \in Session, session'[s].phase = "idle"
      PROVE  SessionContent(s)'
  BY <1>2 DEF SessionContent, Content, Merging
<1>3. ASSUME NEW s \in Session, session'[s] = session[s], UNCHANGED <<has, doc, clk>>
      PROVE  SessionContent(s)'
  BY <1>3, SameContent DEF IInv, SessionContent
<1>4. ASSUME NEW s \in Session, Drop(s)
      PROVE  IInv'
  <2>1. UNCHANGED device /\ session[s].phase \in InFlight
    BY <1>4 DEF Drop
  <2>2. session'[s].phase = "idle" /\ \A t \in Session : t # s => session'[t] = session[t]
    BY <1>1, <1>4, BecomesState DEF Drop
  <2>3. SessionsIsolated' /\ OneHandler'
    BY <2>1, <2>2, FewerIsolated DEF IInv, device
  <2>4. \A t \in Session : SessionContent(t)'
    BY <1>2, <1>3, <2>1, <2>2 DEF device
  <2>5. Databases'
    BY <2>1, SameDatabase DEF IInv, device, Same, Databases
  <2>6. ASSUME NEW d \in Device
        PROVE  Editor(d)'
    <3>1. Unemitted(d) \subseteq Unemitted(d)'
      BY <2>1, <2>2, StillUnemitted DEF InFlight
    <3> QED BY <2>1, <3>1, SameEditor DEF IInv, device
  <2> QED BY <2>3, <2>4, <2>5, <2>6 DEF IInv
<1>5. ASSUME NEW d \in Device, Crash(d)
      PROVE  IInv'
  <2>1. UNCHANGED <<has, doc, clk, issued>>
    BY <1>5 DEF Crash
  <2>2. /\ view'[d] = "closed" /\ editor'[d] = {} /\ inbox'[d] = {} /\ save'[d] = NoSave
        /\ \A x \in Device : x # d => /\ view'[x] = view[x] /\ editor'[x] = editor[x]
                                     /\ inbox'[x] = inbox[x] /\ save'[x] = save[x]
    BY <1>5 DEF Crash, Typed, TypeOK
  <2>3. \A s \in Session : session'[s] = IF d \in Ends(s) THEN Idle ELSE session[s]
    BY <1>5 DEF Crash
  <2>4. \A s \in Session : Busy(s)' => Busy(s) /\ d \notin Ends(s) /\ session'[s] = session[s]
    BY <1>1, <2>3 DEF Busy
  <2>5. SessionsIsolated'
    <3>1. \A s \in Session : \A x \in Ends(s) : x \in Device
      BY SessionEnds DEF Ends
    <3>2. \A s \in Session : \A x \in Ends(s) :
             Busy(s)' => save'[x] = NoSave /\ view'[x] # "loading"
      BY <2>2, <2>4, <3>1 DEF IInv, SessionsIsolated
    <3>3. \A s, t \in Session :
             Busy(s)' /\ Busy(t)' /\ Ends(s) \cap Ends(t) # {} => Conn(s) = Conn(t)
      BY <2>4 DEF IInv, SessionsIsolated
    <3> QED BY <3>2, <3>3 DEF SessionsIsolated, Ends, Conn
  <2>6. OneHandler'
    BY <1>1, <2>3 DEF IInv, OneHandler, AtInitiator, AtResponder, Conn
  <2>7. \A s \in Session : SessionContent(s)'
    BY <1>1, <1>2, <1>3, <2>1, <2>3
  <2>8. ASSUME NEW x \in Device
        PROVE  Database(x)'
    <3>1. CASE x # d
      BY <2>1, <2>2, <3>1, SameDatabase DEF IInv, Same
    <3>2. CASE x = d
      BY <2>1, <2>2, <3>2 DEF IInv, Databases, Database
    <3> QED BY <3>1, <3>2
  <2>9. ASSUME NEW x \in Device
        PROVE  Editor(x)'
    <3>1. CASE x # d
      <4>1. Unemitted(x) \subseteq Unemitted(x)'
        <5> SUFFICES ASSUME NEW edit \in Unemitted(x) PROVE edit \in Unemitted(x)'
          OBVIOUS
        <5>1. PICK t \in Session :
                 t[1] = x /\ session[t].phase = "mergedI" /\ edit \in session[t].upd
          BY DEF Unemitted
        <5>2. d \notin Ends(t)
          BY <1>5, <3>1, <5>1 DEF Crash, Ends, AtInitiator
        <5> QED BY <2>3, <5>1, <5>2 DEF Unemitted
      <4> QED BY <2>1, <2>2, <3>1, <4>1, SameEditor DEF IInv
    <3>2. CASE x = d
      BY <1>1, <2>1, <2>2, <3>2 DEF Editor
    <3> QED BY <3>1, <3>2
  <2> QED BY <2>5, <2>6, <2>7, <2>8, <2>9 DEF IInv, Databases
<1> QED BY <1>4, <1>5

LEMMA InitIInv == Init => IInv
<1> SUFFICES ASSUME Init PROVE IInv
  OBVIOUS
<1>1. /\ \A s \in Session : session[s] = Idle /\ Idle.phase = "idle"
      /\ \A d \in Device : /\ view[d] = "closed" /\ editor[d] = {} /\ inbox[d] = {}
                          /\ save[d] = NoSave /\ NoSave.step = "none"
  BY DEF Init, Idle, NoSave
<1>2. SessionsIsolated /\ OneHandler
  BY <1>1 DEF SessionsIsolated, OneHandler, Busy, AtInitiator, AtResponder
<1>3. \A s \in Session : SessionContent(s)
  BY <1>1 DEF SessionContent, Content, Merging
<1>4. \A d \in Device : Editor(d)
  BY <1>1 DEF Editor
<1>5. Creator \in Holder /\ Holder \subseteq Device
  BY HolderAssumption
<1>6. ASSUME NEW d \in Device, d \in Holder
      PROVE  Database(d)
  <2>1. /\ has[d] /\ doc[d] = {<<Creator, 1>>} /\ issued[d] = (IF d = Creator THEN 1 ELSE 0)
        /\ clk[d] = [e \in Device |-> IF e = Creator THEN 1 ELSE IF e \in Holder THEN 0 ELSE Absent]
    BY <1>6 DEF Init
  <2>2. Covers(doc[d], clk[d])
    BY <2>1 DEF Covers, Absent
  <2>3. \A n \in 1 .. issued[d] : <<d, n>> \in doc[d]
    BY <2>1
  <2>4. clk[d] \in Table /\ HasRow(clk[d], Creator)
    BY <1>5, <2>1 DEF Table, Clock, HasRow, Absent
  <2>5. Listed(clk[d])
    BY <1>5, <2>4, ListedRow
  <2> QED BY <2>1, <2>2, <2>3, <2>5 DEF Database
<1>7. ASSUME NEW d \in Device, d \notin Holder
      PROVE  Database(d)
  <2>1. ~has[d] /\ doc[d] = {} /\ clk[d] = NoRows /\ issued[d] = 0
    BY <1>5, <1>7 DEF Init
  <2>2. Covers(doc[d], clk[d])
    BY <2>1 DEF Covers, NoRows, Absent
  <2> QED BY <1>1, <2>1, <2>2 DEF Database
<1> QED BY <1>2, <1>3, <1>4, <1>6, <1>7 DEF IInv, Databases

\* The hypothesis of all that follows.
Sequential == "overlap" \notin Faults /\ "error" \notin Faults

LEMMA StepIInv ==
    ASSUME Sequential, Typed, Typed', UncountedUnknown, IInv, [Next]_vars
    PROVE  IInv'
<1>1. ~Overlap
  BY DEF Sequential, Overlap
<1>2. /\ SessionsIsolated /\ OneHandler /\ Databases
      /\ \A d \in Device : Editor(d)
      /\ \A s \in Session : SessionContent(s)
  BY DEF IInv
<1>3. CASE UNCHANGED vars
  <2>1. \A d \in Device : Unemitted(d)' = Unemitted(d)
    BY <1>3 DEF vars, Unemitted
  <2>2. \A d \in Device : Editor(d)'
    BY <1>2, <1>3, <2>1, SameEditor DEF vars
  <2>3. \A s \in Session : SessionContent(s)'
    BY <1>2, <1>3, SameContent DEF vars, SessionContent
  <2>4. Databases'
    BY <1>2, <1>3, SameDatabase DEF vars, Same, Databases
  <2>5. SessionsIsolated' /\ OneHandler'
    BY <1>2, <1>3, FewerIsolated DEF vars
  <2> QED BY <2>2, <2>3, <2>4, <2>5 DEF IInv
<1>4. ASSUME NEW d \in Device, Editing(d)
      PROVE  IInv'
  <2>1. SessionsIsolated' /\ OneHandler'
    BY <1>1, <1>2, <1>4, EditingIsolated
  <2>2. Databases'
    BY <1>2, <1>4, EditingDatabase
  <2>3. \A x \in Device : Editor(x)'
    BY <1>1, <1>2, <1>4, EditingEditor
  <2>4. \A s \in Session : SessionContent(s)'
    BY <1>1, <1>2, <1>4, EditingContent
  <2> QED BY <2>1, <2>2, <2>3, <2>4 DEF IInv
<1>5. ASSUME NEW s \in Session, StartSync(s)
      PROVE  IInv'
  <2>1. UNCHANGED <<has, doc, clk, view, editor, inbox, save, issued>>
    BY <1>5 DEF StartSync, device
  <2>2. ~Busy(s) /\ \A t \in Session : t # s => session'[t] = session[t]
    BY <1>5, BecomesState DEF StartSync
  <2>3. SessionsIsolated' /\ OneHandler'
    BY <1>1, <1>2, <1>5, StartIsolated
  <2>4. Databases'
    BY <1>2, <2>1, SameDatabase DEF Same, Databases
  <2>5. \A d \in Device : Editor(d)'
    BY <1>2, <2>1, <2>2, StillUnemitted, SameEditor DEF Busy
  <2>6. ASSUME NEW t \in Session
        PROVE  SessionContent(t)'
    <3>1. CASE t = s
      BY <1>2, <1>5, <3>1, ProtocolContent
    <3>2. CASE t # s
      BY <1>2, <2>1, <2>2, <3>2, SameContent DEF SessionContent
    <3> QED BY <3>1, <3>2
  <2> QED BY <2>3, <2>4, <2>5, <2>6 DEF IInv
<1>6. ASSUME NEW s \in Session, Protocol(s)
      PROVE  IInv'
  <2>1. Effect(s) /\ Busy(s) /\ \A t \in Session : t # s => session'[t] = session[t]
    BY <1>2, <1>6, ProtocolEffect, ProtocolStep
  <2>2. SessionsIsolated' /\ OneHandler'
    BY <1>2, <1>6, ProtocolIsolated
  <2>3. Databases'
    BY <2>1 DEF Effect
  <2>4. \A d \in Device : Editor(d)'
    BY <1>2, <1>6, ProtocolEditor
  <2>5. ASSUME NEW t \in Session
        PROVE  SessionContent(t)'
    <3>1. CASE t = s
      BY <1>2, <1>6, <3>1, ProtocolContent
    <3>2. CASE t # s
      BY <1>2, <2>1, <3>2, OthersContent
    <3> QED BY <3>1, <3>2
  <2> QED BY <2>2, <2>3, <2>4, <2>5 DEF IInv
<1>7. ~\E s \in Session : HandlerFails(s)
  BY DEF HandlerFails, Fault, Sequential
<1> QED BY <1>3, <1>4, <1>5, <1>6, <1>7, FaultKeeps DEF Next

\* The invariant in every reachable state, with those that hold anyway.
LEMMA IInvAlways ==
    ASSUME Sequential
    PROVE  Spec => [](Typed /\ UncountedUnknown /\ OwnRowPresent /\ IInv)
<1>1. Typed /\ Typed' /\ UncountedUnknown /\ IInv /\ [Next]_vars => IInv'
  BY StepIInv
<1> QED BY <1>1, InitIInv, TypedAlways, UncountedStaysUnknown, HoldersHaveRows, PTL DEF Spec

\* Without overlap and without handlers that fail half-way, a clock row is never
\* ahead of the document next to it, whatever connections are lost, however many
\* merges share a connection and wherever a device crashes: comparing clocks is
\* enough to know what a copy lacks.
THEOREM ClocksAreSound ==
    ASSUME Sequential
    PROVE  Spec => []ClockSound
<1>1. Typed /\ IInv => ClockSound
  <2> SUFFICES ASSUME Typed, IInv, NEW d \in Device, NEW e \in Device, NEW n \in 1 .. MaxSaves,
                      n <= clk[d][e]
               PROVE  <<e, n>> \in doc[d]
    BY DEF ClockSound
  <2>1. clk[d][e] \in Int /\ n \in Int /\ 1 <= n
    BY RowInt, BoundAssumption DEF Typed, TypeOK
  <2>2. n \in 1 .. clk[d][e]
    BY <2>1
  <2> QED BY <2>2 DEF IInv, Databases, Database, Covers
<1> QED BY <1>1, IInvAlways, PTL

----------------------------------------------------------------------------
(* The databases implement Replica.                                        *)

\* A step that changes the database of d alone, by what e has, is one of Replica.
LEMMA ReplicaStep ==
    ASSUME Typed, Typed', NEW d \in Device, NEW e \in Device, Learned(d, e), Database(d)',
           \A x \in Device : x # d => Same(x), UNCHANGED issued,
           \/ clk'[d] = clk[d]
           \/ doc'[d] = doc[d]
           \/ doc[d] = {}
    PROVE  Replicas!Next
<1>1. /\ doc \in [Device -> SUBSET Edit] /\ doc' \in [Device -> SUBSET Edit]
      /\ clk \in [Device -> Table] /\ clk' \in [Device -> Table]
  BY DEF Typed, TypeOK
<1>2. doc' = [doc EXCEPT ![d] = doc'[d]] /\ clk' = [clk EXCEPT ![d] = clk'[d]]
  BY <1>1 DEF Same
<1>3. \A edit \in doc'[d] : \E x \in Device : edit \in doc[x]
  BY DEF Learned
<1>4. Replicas!Covered(clk'[d], doc'[d]) /\ \A x \in Device : clk[d][x] <= clk'[d][x]
  BY DEF Database, Covers, Replicas!Covered, Learned, Below
<1>5. CASE clk'[d] = clk[d]
  <2>1. Replicas!Learn(d)
    BY <1>1, <1>2, <1>3, <1>5 DEF Replicas!Learn, Learned
  <2> QED BY <2>1 DEF Replicas!Next
<1>6. CASE doc'[d] = doc[d]
  <2>1. Replicas!Know(d)
    BY <1>1, <1>2, <1>4, <1>6 DEF Replicas!Know
  <2> QED BY <2>1 DEF Replicas!Next
<1>7. CASE doc[d] = {}
  <2>1. Replicas!Receive(d)
    BY <1>2, <1>3, <1>4, <1>7 DEF Replicas!Receive
  <2> QED BY <2>1 DEF Replicas!Next
<1> QED BY <1>5, <1>6, <1>7

ReplicaUnchanged == UNCHANGED <<doc, clk, issued>>

\* What an editor does to its database: a save, a counted save, a 0 row.
LEMMA EditingReplica ==
    ASSUME Typed, Typed', UncountedUnknown, Databases, NEW d \in Device, Editor(d), Editing(d)
    PROVE  Replicas!Next \/ ReplicaUnchanged
<1>1. /\ doc \in [Device -> SUBSET Edit] /\ doc' \in [Device -> SUBSET Edit]
      /\ clk \in [Device -> Table] /\ clk' \in [Device -> Table]
      /\ issued \in [Device -> 0 .. MaxSaves] /\ issued[d] \in Nat
      /\ clk[d] \in Table /\ clk'[d] \in Table
  BY BoundAssumption DEF Typed, TypeOK
<1>2. Databases'
  BY EditingDatabase
<1>3. ASSUME UNCHANGED <<doc, issued>>, \A x \in Device : x # d => clk'[x] = clk[x],
             \A x \in Device : clk[d][x] <= clk'[d][x]
      PROVE  Replicas!Next
  <2>1. clk' = [clk EXCEPT ![d] = clk'[d]]
    BY <1>1, <1>3
  <2>2. Replicas!Covered(clk'[d], doc[d])
    BY <1>2, <1>3 DEF Databases, Database, Covers, Replicas!Covered
  <2> QED BY <1>3, <2>1, <2>2 DEF Replicas!Next, Replicas!Know
<1>4. CASE Load(d) \/ Show(d) \/ Close(d) \/ TakeUpdates(d) \/ SaveTake(d)
  BY <1>4 DEF Load, Show, Close, TakeUpdates, SaveTake, ReplicaUnchanged
<1>5. CASE SaveWrite(d)
  <2>1. save[d].data = doc[d] \cup {<<d, issued[d] + 1>>}
    BY <1>5 DEF SaveWrite, Editor
  <2>2. /\ doc' = [doc EXCEPT ![d] = doc[d] \cup {<<d, issued[d] + 1>>}]
        /\ issued' = [issued EXCEPT ![d] = issued[d] + 1] /\ UNCHANGED clk
    BY <1>5, <2>1 DEF SaveWrite
  <2> QED BY <2>2 DEF Replicas!Next, Replicas!Save
<1>6. CASE SaveIncrement(d)
  <2>1. /\ save[d].step = "written" /\ UNCHANGED <<doc, issued>>
        /\ clk' = [clk EXCEPT ![d] = Increment(clk[d], d)]
    BY <1>6 DEF SaveIncrement
  <2>2. \A x \in Device : clk[d][x] \in Int /\ -1 <= clk[d][x]
    BY <1>1, RowInt
  <2>3. clk'[d] = Increment(clk[d], d) /\ \A x \in Device : x # d => clk'[x] = clk[x]
    BY <1>1, <2>1
  <2>4. ASSUME NEW x \in Device
        PROVE  clk[d][x] <= clk'[d][x]
    <3>1. clk'[d] = [clk[d] EXCEPT ![d] = IF HasRow(clk[d], d) THEN clk[d][d] + 1 ELSE 1]
      BY <2>3 DEF Increment
    <3>2. clk'[d][x] = IF x = d THEN (IF HasRow(clk[d], d) THEN clk[d][d] + 1 ELSE 1) ELSE clk[d][x]
      BY <1>1, <3>1 DEF Table
    <3>3. ~HasRow(clk[d], d) => clk[d][d] = -1
      BY DEF HasRow, Absent
    <3> QED BY <2>2, <3>2, <3>3
  <2> QED BY <1>3, <2>1, <2>3, <2>4
<1>7. ASSUME NEW e \in Device, Share(d, e)
      PROVE  Replicas!Next
  <2>1. /\ UNCHANGED <<has, doc, issued>>
        /\ clk' = [clk EXCEPT ![d] = ZeroRow(clk[d], e)]
    BY <1>7 DEF Share
  <2>2. clk'[d] = ZeroRow(clk[d], e) /\ \A x \in Device : x # d => clk'[x] = clk[x]
    BY <1>1, <2>1
  <2>3. Learned(d, d)
    BY <2>1, <2>2, ZeroLearned
  <2> QED BY <1>3, <2>1, <2>2, <2>3 DEF Learned, Below
<1> QED BY <1>4, <1>5, <1>6, <1>7 DEF Editing

\* What a session does: it changes the database of one end, by what the other
\* one has, and either the copy or the clock unless the end had no copy.
LEMMA ProtocolReplica ==
    ASSUME Typed, Typed', Databases, NEW s \in Session, SessionContent(s), Protocol(s)
    PROVE  Replicas!Next \/ ReplicaUnchanged
<1>1. /\ doc \in [Device -> SUBSET Edit] /\ clk \in [Device -> Table]
      /\ has \in [Device -> BOOLEAN]
  BY DEF Typed, TypeOK
<1>2. s[1] \in Device /\ s[2] \in Device /\ s[1] # s[2] /\ Ends(s) = {s[1], s[2]}
  BY SessionEnds DEF Ends
<1>3. Effect(s)
  BY ProtocolEffect
<1>4. ASSUME NEW d \in Device, NEW e \in Device, Ends(s) = {d, e},
             (d = s[1] /\ e = s[2]) \/ (d = s[2] /\ e = s[1]),
             \A x \in Device : x # d => Same(x), UNCHANGED issued,
             \/ clk'[d] = clk[d]
             \/ doc'[d] = doc[d]
             \/ doc[d] = {}
      PROVE  Replicas!Next
  <2>1. Learned(d, e) /\ Database(d)'
    BY <1>3, <1>4 DEF Effect, Databases
  <2> QED BY <1>4, <2>1, ReplicaStep
<1>5. CASE \/ CompareManifests(s) \/ SendCopy(s) \/ RequestUpdates(s) \/ GenerateUpdates(s)
           \/ ReadForMerge(s) \/ SendFinal(s) \/ ReadForFinal(s) \/ ReadClocks(s)
  BY <1>5 DEF CompareManifests, SendCopy, RequestUpdates, GenerateUpdates, ReadForMerge, SendFinal,
     ReadForFinal, ReadClocks, device, ReplicaUnchanged
<1>6. PICK to \in Device, from \in Device :
          /\ to = Receiver(s) /\ from = Sender(s) /\ Ends(s) = {to, from}
          /\ (to = s[1] /\ from = s[2]) \/ (to = s[2] /\ from = s[1])
  BY <1>2 DEF Sender, Receiver
<1>7. CASE ReadCopy(s)
  <2>1. /\ UNCHANGED <<has, doc, issued>>
        /\ \A x \in Device : x # from => clk'[x] = clk[x]
    BY <1>1, <1>6, <1>7 DEF ReadCopy
  <2>2. \A x \in Device : x # from => Same(x)
    BY <2>1 DEF Same
  <2> QED BY <1>4, <1>6, <2>1, <2>2
<1>8. CASE ReceiveCopy(s)
  <2>1. /\ UNCHANGED issued
        /\ has' = [has EXCEPT ![to] = TRUE]
        /\ doc' = [doc EXCEPT ![to] = IF has[to] THEN @ ELSE session[s].upd]
        /\ \A x \in Device : x # to => clk'[x] = clk[x]
    BY <1>1, <1>6, <1>8 DEF ReceiveCopy
  <2>2. \A x \in Device : x # to => Same(x)
    BY <1>1, <2>1 DEF Same
  <2>3. doc'[to] = doc[to] \/ doc[to] = {}
    BY <1>1, <2>1 DEF Databases, Database
  <2> QED BY <1>4, <1>6, <2>1, <2>2, <2>3
<1>9. CASE WriteMerged(s) \/ AcceptClocks(s)
  <2>1. UNCHANGED <<has, issued>> /\ (UNCHANGED clk \/ UNCHANGED doc)
    BY <1>9 DEF WriteMerged, AcceptClocks
  <2>2. \A x \in Device : x # s[1] => doc'[x] = doc[x] /\ clk'[x] = clk[x]
    BY <1>1, <1>9 DEF WriteMerged, AcceptClocks
  <2>3. \A x \in Device : x # s[1] => Same(x)
    BY <2>1, <2>2 DEF Same
  <2> QED BY <1>2, <1>4, <2>1, <2>3
<1>10. CASE WriteFinal(s) \/ MergeClocks(s)
  <2>1. UNCHANGED <<has, issued>> /\ (UNCHANGED clk \/ UNCHANGED doc)
    BY <1>10 DEF WriteFinal, MergeClocks
  <2>2. \A x \in Device : x # s[2] => doc'[x] = doc[x]
    BY <1>1, <1>10 DEF WriteFinal, MergeClocks
  <2>3. \A x \in Device : x # s[2] => clk'[x] = clk[x]
    BY <1>10, MergedRows DEF WriteFinal
  <2>4. \A x \in Device : x # s[2] => Same(x)
    BY <2>1, <2>2, <2>3 DEF Same
  <2> QED BY <1>2, <1>4, <2>1, <2>4
<1> QED BY <1>5, <1>7, <1>8, <1>9, <1>10 DEF Protocol

LEMMA ReplicaNext ==
    ASSUME Sequential, Typed, Typed', UncountedUnknown, IInv, [Next]_vars
    PROVE  Replicas!Next \/ ReplicaUnchanged
<1>1. CASE UNCHANGED vars
  BY <1>1 DEF vars, ReplicaUnchanged
<1>2. ASSUME NEW d \in Device, Editing(d)
      PROVE  Replicas!Next \/ ReplicaUnchanged
  BY <1>2, EditingReplica DEF IInv
<1>3. ASSUME NEW s \in Session, Protocol(s)
      PROVE  Replicas!Next \/ ReplicaUnchanged
  BY <1>3, ProtocolReplica DEF IInv
<1>4. ASSUME \/ \E d \in Device : Crash(d)
             \/ \E s \in Session : StartSync(s) \/ Drop(s) \/ HandlerFails(s)
      PROVE  ReplicaUnchanged
  BY <1>4 DEF Crash, StartSync, Drop, HandlerFails, device, ReplicaUnchanged
<1> QED BY <1>1, <1>2, <1>3, <1>4 DEF Next

LEMMA ReplicaInit == Init => Replicas!Init
<1> SUFFICES ASSUME Init PROVE Replicas!Init
  OBVIOUS
<1>1. Typed /\ Databases
  BY InitTyped, InitIInv DEF IInv
<1>2. clk \in [Device -> Table] /\ \A d \in Device : issued[d] \in Nat
  BY <1>1, BoundAssumption DEF Typed, TypeOK
<1>3. \A d \in Device : Replicas!Covered(clk[d], doc[d])
  BY <1>1 DEF Databases, Database, Covers, Replicas!Covered
<1>4. \A d \in Device : \A edit \in doc[d] : edit[2] \in 1 .. issued[edit[1]]
  <2> SUFFICES ASSUME NEW d \in Device, NEW edit \in doc[d] PROVE edit[2] \in 1 .. issued[edit[1]]
    OBVIOUS
  <2>1. edit = <<Creator, 1>> /\ issued[Creator] = 1
    BY HolderAssumption DEF Init
  <2>2. edit[1] = Creator /\ edit[2] = 1
    BY <2>1
  <2> QED BY <2>1, <2>2
<1>5. Replicas!Table = Table
  BY DEF Replicas!Table, Replicas!Clock, Replicas!Absent, Table, Clock, Absent
<1> QED BY <1>2, <1>3, <1>4, <1>5 DEF Replicas!Init

\* Every write of a save, of a hand-over and of a merge is a step of Replica:
\* the databases never lose, invent or overstate an edit.
THEOREM DatabasesImplementReplica ==
    ASSUME Sequential
    PROVE  Spec => ImplementsReplica
<1>1. Typed /\ Typed' /\ UncountedUnknown /\ IInv /\ [Next]_vars
          => [Replicas!Next]_<<doc, clk, issued>>
  BY ReplicaNext DEF ReplicaUnchanged
<1>2. Spec => [](Typed /\ UncountedUnknown /\ OwnRowPresent /\ IInv)
  BY IInvAlways
<1> QED BY <1>1, <1>2, ReplicaInit, PTL DEF Spec, ImplementsReplica, Replicas!Spec

----------------------------------------------------------------------------
(* When all clocks agree, all copies are the same.                         *)

\* No copy has an edit that its device has not saved.
EditsIssued == \A d \in Device : \A edit \in doc[d] : edit[2] \in 1 .. issued[edit[1]]

\* A device that holds the resource has counted its own saves, all but the
\* one it is about to count.
OwnCounted == \A d \in Device : has[d] => clk[d][d] = Counted(d)

\* A step of Replica lowers no clock row.
LEMMA ReplicaRowsRise ==
    ASSUME Typed, Typed', Replicas!Next \/ ReplicaUnchanged
    PROVE  \A d \in Device : Below(clk[d], clk'[d])
<1> SUFFICES ASSUME NEW d \in Device, NEW e \in Device PROVE clk[d][e] <= clk'[d][e]
  BY DEF Below
<1>1. clk[d][e] \in Int /\ clk'[d][e] \in Int /\ clk \in [Device -> Table]
  BY RowInt DEF Typed, TypeOK
<1>2. CASE clk' = clk
  BY <1>1, <1>2
<1>3. ASSUME NEW x \in Device, \A y \in Device : clk[x][y] <= clk'[x][y],
             clk' = [clk EXCEPT ![x] = clk'[x]]
      PROVE  clk[d][e] <= clk'[d][e]
  BY <1>1, <1>3
<1>4. CASE ReplicaUnchanged
  BY <1>2, <1>4 DEF ReplicaUnchanged
<1>5. CASE Replicas!Next
  <2>1. PICK x \in Device : \/ Replicas!Save(x) \/ Replicas!Learn(x)
                            \/ Replicas!Know(x) \/ Replicas!Receive(x)
    BY <1>5 DEF Replicas!Next
  <2>2. CASE Replicas!Save(x) \/ Replicas!Learn(x)
    BY <1>2, <2>2 DEF Replicas!Save, Replicas!Learn
  <2>3. CASE Replicas!Know(x) \/ Replicas!Receive(x)
    BY <1>3, <2>3 DEF Replicas!Know, Replicas!Receive
  <2> QED BY <2>1, <2>2, <2>3
<1> QED BY <1>4, <1>5

\* And none brings an edit that was not saved.
LEMMA ReplicaEdits ==
    ASSUME Typed, Typed', EditsIssued, Replicas!Next \/ ReplicaUnchanged
    PROVE  EditsIssued'
<1>1. /\ doc \in [Device -> SUBSET Edit] /\ doc' \in [Device -> SUBSET Edit]
      /\ issued \in [Device -> Nat] /\ issued' \in [Device -> Nat]
  <2>1. 0 .. MaxSaves \subseteq Nat
    BY BoundAssumption
  <2> QED BY <2>1 DEF Typed, TypeOK
<1>2. ASSUME UNCHANGED issued, NEW d \in Device, \A x \in Device : x # d => doc'[x] = doc[x],
             \A edit \in doc'[d] : \E e \in Device : edit \in doc[e]
      PROVE  EditsIssued'
  <2> SUFFICES ASSUME NEW x \in Device, NEW edit \in doc'[x]
               PROVE  edit[2] \in 1 .. issued[edit[1]]
    BY <1>2 DEF EditsIssued
  <2>1. PICK e \in Device : edit \in doc[e]
    BY <1>2
  <2> QED BY <2>1 DEF EditsIssued
<1>3. ASSUME NEW d \in Device, Replicas!Save(d)
      PROVE  EditsIssued'
  <2> SUFFICES ASSUME NEW x \in Device, NEW edit \in doc'[x]
               PROVE  edit[2] \in 1 .. issued'[edit[1]]
    BY DEF EditsIssued
  <2>1. edit \in doc[x] \/ (x = d /\ edit = <<d, issued[d] + 1>>)
    BY <1>1, <1>3 DEF Replicas!Save
  <2>2. CASE edit \in doc[x]
    <3>1. edit[1] \in Device /\ edit[2] \in 1 .. issued[edit[1]]
      BY <1>1, <2>2 DEF EditsIssued, Edit
    <3>2. issued'[edit[1]] = issued[edit[1]] \/ issued'[edit[1]] = issued[edit[1]] + 1
      BY <1>1, <1>3, <3>1 DEF Replicas!Save
    <3>3. issued[edit[1]] \in Nat
      BY <1>1, <3>1
    <3> QED BY <3>1, <3>2, <3>3
  <2>3. CASE edit = <<d, issued[d] + 1>>
    <3>1. edit[1] = d /\ edit[2] = issued[d] + 1
      BY <2>3
    <3>2. issued'[d] = issued[d] + 1 /\ issued[d] \in Nat
      BY <1>1, <1>3 DEF Replicas!Save
    <3> QED BY <3>1, <3>2
  <2> QED BY <2>1, <2>2, <2>3
<1>4. CASE ReplicaUnchanged
  BY <1>4 DEF ReplicaUnchanged, EditsIssued
<1>5. ASSUME NEW d \in Device, Replicas!Learn(d) \/ Replicas!Know(d) \/ Replicas!Receive(d)
      PROVE  EditsIssued'
  <2>1. CASE Replicas!Know(d)
    BY <2>1 DEF Replicas!Know, EditsIssued
  <2>2. CASE Replicas!Learn(d) \/ Replicas!Receive(d)
    <3>1. doc' = [doc EXCEPT ![d] = doc'[d]] /\ UNCHANGED issued
      BY <2>2 DEF Replicas!Learn, Replicas!Receive
    <3>2. \A edit \in doc'[d] : \E e \in Device : edit \in doc[e]
      BY <2>2 DEF Replicas!Learn, Replicas!Receive
    <3> QED BY <1>1, <1>2, <3>1, <3>2
  <2> QED BY <1>5, <2>1, <2>2
<1> QED BY <1>3, <1>4, <1>5 DEF Replicas!Next

\* Only the end of a save changes what a device has to have counted.
LEMMA CountedStays ==
    ASSUME Sequential, "crash" \notin Faults, Typed, [Next]_vars, NEW d \in Device,
           ~SaveIncrement(d)
    PROVE  Counted(d)' = Counted(d)
<1>1. /\ save \in [Device -> SaveState] /\ issued \in [Device -> 0 .. MaxSaves]
      /\ issued[d] \in Nat /\ NoSave.step = "none"
  BY BoundAssumption DEF Typed, TypeOK, NoSave
<1>2. ASSUME save'[d] = save[d], issued'[d] = issued[d]
      PROVE  Counted(d)' = Counted(d)
  BY <1>2 DEF Counted
<1>3. CASE UNCHANGED vars
  BY <1>2, <1>3 DEF vars
<1>4. ASSUME NEW x \in Device, Editing(x)
      PROVE  Counted(d)' = Counted(d)
  <2>1. CASE x # d
    BY <1>1, <1>2, <1>4, <2>1 DEF Editing, Load, Show, Close, TakeUpdates, SaveTake, SaveWrite,
       SaveIncrement, Share
  <2>2. CASE Load(d) \/ Show(d) \/ Close(d) \/ TakeUpdates(d) \/ \E e \in Device : Share(d, e)
    BY <1>2, <2>2 DEF Load, Show, Close, TakeUpdates, Share
  <2>3. CASE SaveTake(d)
    <3>1. save[d].step = "none" /\ issued' = issued
      BY <1>1, <2>3 DEF SaveTake
    <3>2. save'[d].step = "taken"
      BY <1>1, <2>3 DEF SaveTake
    <3> QED BY <3>1, <3>2 DEF Counted
  <2>4. CASE SaveWrite(d)
    <3>1. save[d].step = "taken" /\ issued'[d] = issued[d] + 1
      BY <1>1, <2>4 DEF SaveWrite
    <3>2. save'[d].step = "written"
      BY <1>1, <2>4 DEF SaveWrite, SaveState
    <3> QED BY <1>1, <3>1, <3>2 DEF Counted
  <2> QED BY <1>4, <2>1, <2>2, <2>3, <2>4 DEF Editing
<1>5. ASSUME NEW s \in Session, StartSync(s) \/ Protocol(s) \/ Drop(s) \/ HandlerFails(s)
      PROVE  Counted(d)' = Counted(d)
  <2>1. UNCHANGED <<save, issued>>
    BY <1>5 DEF StartSync, Drop, HandlerFails, device, Protocol, CompareManifests, ReadCopy, SendCopy,
       ReceiveCopy, RequestUpdates, GenerateUpdates, ReadForMerge, WriteMerged, SendFinal,
       ReadForFinal, WriteFinal, ReadClocks, MergeClocks, AcceptClocks
  <2> QED BY <1>2, <2>1
<1>6. ~\E x \in Device : Crash(x)
  BY DEF Crash, Fault
<1> QED BY <1>3, <1>4, <1>5, <1>6 DEF Next

LEMMA StepOwnCounted ==
    ASSUME Sequential, "crash" \notin Faults, Typed, Typed', UncountedUnknown, UncountedUnknown',
           OwnRowPresent', IInv, OwnCounted, [Next]_vars
    PROVE  OwnCounted'
<1> SUFFICES ASSUME NEW d \in Device, has'[d] PROVE clk'[d][d] = Counted(d)'
  BY DEF OwnCounted
<1>1. /\ clk[d] \in Table /\ clk'[d] \in Table /\ clk[d][d] \in Int /\ clk'[d][d] \in Int
      /\ HasRow(clk'[d], d) /\ -1 <= clk'[d][d] /\ clk'[d][d] # -1
  <2>1. clk[d] \in Table /\ clk'[d] \in Table /\ HasRow(clk'[d], d)
    BY DEF Typed, TypeOK, OwnRowPresent
  <2> QED BY <2>1, RowInt
<1>2. clk[d][d] <= clk'[d][d]
  BY ReplicaNext, ReplicaRowsRise DEF Below
<1>3. clk'[d][d] <= Counted(d)'
  BY DEF UncountedUnknown
<1>4. Counted(d) \in Int /\ Counted(d)' \in Int /\ issued[d] \in Int /\ issued'[d] \in Int
  BY BoundAssumption DEF Typed, TypeOK, Counted
<1>5. CASE SaveIncrement(d)
  <2>1. save[d].step = "written" /\ has[d]
    BY <1>5 DEF SaveIncrement, IInv, Databases, Database, NoSave
  <2>2. clk[d][d] = issued[d] - 1 /\ 0 < issued[d]
    BY <2>1 DEF OwnCounted, Counted, Typed, SaveOrdered
  <2>3. clk'[d][d] = clk[d][d] + 1
    <3>1. clk'[d] = Increment(clk[d], d)
      BY <1>5 DEF SaveIncrement, Typed, TypeOK
    <3>2. HasRow(clk[d], d)
      BY <1>4, <2>2 DEF HasRow, Absent
    <3> QED BY <1>1, <3>1, <3>2 DEF Increment, Table
  <2>4. issued' = issued /\ save'[d].step = "none"
    BY <1>5 DEF SaveIncrement, NoSave, Typed, TypeOK
  <2> QED BY <1>4, <2>2, <2>3, <2>4 DEF Counted
<1>6. CASE ~SaveIncrement(d)
  <2>1. Counted(d)' = Counted(d)
    BY <1>6, CountedStays
  <2>2. CASE has[d]
    BY <1>1, <1>2, <1>3, <1>4, <2>1, <2>2 DEF OwnCounted
  <2>3. CASE ~has[d]
    <3>1. issued[d] = 0 /\ save[d].step = "none"
      BY <2>3 DEF IInv, Databases, Database, NoSave
    <3>2. Counted(d)' = 0
      BY <2>1, <3>1 DEF Counted
    <3> QED BY <1>1, <1>3, <3>2
  <2> QED BY <2>2, <2>3
<1> QED BY <1>5, <1>6

\* Clocks that need no update are equal.
LEMMA AgreedRows ==
    ASSUME NEW t \in Table, NEW u \in Table, ~NeedsUpdate(t, u)
    PROVE  \A e \in Device : t[e] = u[e]
BY DEF NeedsUpdate, Rows, HasRow, Absent, Table

\* When all manifests agree and nothing is under way, all copies are the same:
\* comparing clocks, which is all that CompareManifests does, finds every
\* difference.  A crash between the two writes of a save leaves a save that no
\* clock counts, and is excluded.
THEOREM AgreementIsEnough ==
    ASSUME Sequential, "crash" \notin Faults
    PROVE  Spec => []AgreedMeansSame
<1>1. Init => EditsIssued /\ OwnCounted
  <2> SUFFICES ASSUME Init PROVE EditsIssued /\ OwnCounted
    OBVIOUS
  <2>1. EditsIssued
    BY ReplicaInit DEF EditsIssued, Replicas!Init
  <2>2. OwnCounted
    BY HolderAssumption DEF Init, OwnCounted, Counted, NoSave
  <2> QED BY <2>1, <2>2
<1>2. /\ Typed /\ Typed' /\ UncountedUnknown /\ UncountedUnknown' /\ OwnRowPresent' /\ IInv
      /\ EditsIssued /\ OwnCounted /\ [Next]_vars
      => (EditsIssued /\ OwnCounted)'
  BY ReplicaNext, ReplicaEdits, StepOwnCounted
<1>3. Typed /\ IInv /\ EditsIssued /\ OwnCounted => AgreedMeansSame
  <2> SUFFICES ASSUME Typed, IInv, EditsIssued, OwnCounted, Settled,
                      \A d, e \in Device : has[d] /\ ~NeedsUpdate(clk[d], clk[e])
               PROVE  \A d, e \in Device : doc[d] = doc[e]
    BY DEF AgreedMeansSame
  <2>1. ASSUME NEW d \in Device, NEW e \in Device
        PROVE  doc[d] \subseteq doc[e]
    <3> SUFFICES ASSUME NEW edit \in doc[d] PROVE edit \in doc[e]
      OBVIOUS
    <3>1. PICK x \in Device, n \in 1 .. MaxSaves : edit = <<x, n>>
      BY DEF Typed, TypeOK, Edit
    <3>2. edit[1] = x /\ edit[2] = n /\ n \in 1 .. issued[edit[1]]
      BY <3>1 DEF EditsIssued
    <3>3. clk[x][x] = issued[x]
      BY DEF OwnCounted, Settled, Counted, NoSave
    <3>4. clk[e][x] = clk[x][x]
      BY AgreedRows DEF Typed, TypeOK
    <3>5. n \in 1 .. clk[e][x]
      BY <3>2, <3>3, <3>4
    <3> QED BY <3>1, <3>5 DEF IInv, Databases, Database, Covers
  <2>2. ASSUME NEW d \in Device, NEW e \in Device
        PROVE  doc[d] = doc[e]
    <3>1. doc[d] \subseteq doc[e] /\ doc[e] \subseteq doc[d]
      BY <2>1
    <3> QED BY <3>1
  <2> QED BY <2>2
<1> QED BY <1>1, <1>2, <1>3, IInvAlways, PTL DEF Spec

----------------------------------------------------------------------------
(* Clock rows.                                                             *)

\* No clock row falls: ResourceVectorClock::merge sends a row only where the
\* sender's value is higher, and while nothing overlaps it still is when the
\* row arrives, although update_vector_clocks stores it without comparing.
THEOREM ClockRowsRise ==
    ASSUME Sequential
    PROVE  Spec => RowsKept
<1>1. Typed /\ Typed' /\ UncountedUnknown /\ IInv /\ [Next]_vars
          => [\A d, e \in Device : clk[d][e] <= clk'[d][e]]_vars
  BY ReplicaNext, ReplicaRowsRise DEF Below
<1> QED BY <1>1, IInvAlways, PTL DEF Spec, RowsKept

\* In particular a device never forgets saves of its own that it counted.
THEOREM OwnRowRises ==
    ASSUME Sequential
    PROVE  Spec => OwnRowKept
<1>1. Typed /\ Typed' /\ UncountedUnknown /\ IInv /\ [Next]_vars
          => [\A d \in Device : clk[d][d] <= clk'[d][d]]_vars
  BY ReplicaNext, ReplicaRowsRise DEF Below
<1> QED BY <1>1, IInvAlways, PTL DEF Spec, OwnRowKept
=============================================================================
