------------------------ MODULE ReferenceAssetsProofs ------------------------
(***************************************************************************)
(* Proofs about the media assets, for any number of calls, assets, stories *)
(* and references: files and rows match, but for the bytes that the error  *)
(* handler of an upload removes under a committed row and those that       *)
(* deaths, failed writes and failed unlinks leave behind; and no asset     *)
(* changes under an approved plan that had it before.                      *)
(***************************************************************************)
EXTENDS ReferenceAssets, TLAPS

Calls == {Idle} \cup Store \cup Change \cup Delete \cup Unlink \cup Link \cup Refresh

(* An upload has its name and its bytes for itself until it ends. *)
StoreOwns ==
  \A r \in Sessions :
    session[r].op = "store" =>
      /\ ~Exists(session[r].asset)
      /\ session[r].asset \in files
      /\ \A t \in Sessions \ {r} :
           session[t] # Idle => session[t].asset # session[r].asset

(* Bytes are removed when their row is gone, and the name does not return. *)
UnlinkGone == \A r \in Sessions : session[r].op = "unlink" => ~Exists(session[r].asset)

(* The foreign keys of the references. *)
UsesExist == \A u \in uses : Exists(u[3])

(* A call knows the stories that use its asset, but those that came later. *)
UsersKnown ==
  \A r \in Sessions :
    session[r].op \in {"change", "delete"} =>
      \A s \in Stories, w \in Ways :
        <<s, w, session[r].asset>> \in uses =>
          s \in session[r].users \/ <<s, session[r].asset>> \in late

IInv ==
  /\ TypeOK /\ RowHasBytes /\ NoLeakedBytes
  /\ StoreOwns /\ UnlinkGone /\ UsesExist /\ UsersKnown

-----------------------------------------------------------------------------
(* Calls and rows *)

LEMMA CallParts ==
  ASSUME NEW c \in Calls
  PROVE  /\ c # Idle <=> c.op # "idle"
         /\ c # Idle => c.asset \in Assets
         /\ c.op \in {"idle", "store", "change", "delete", "unlink", "link", "refresh"}
         /\ c.op = "store" => c.row \in Row
         /\ c.op = "change" => c.seen \in Row /\ c.new \in Row
         /\ c.op \in {"change", "delete"} => c.users \subseteq Stories
         /\ c.op = "link" => c.story \in Stories
<1>1. CASE c = Idle
  BY <1>1 DEF Idle
<1>2. CASE c \in Store
  BY <1>2 DEF Store, Idle
<1>3. CASE c \in Change
  BY <1>3 DEF Change, Idle
<1>4. CASE c \in Delete
  BY <1>4 DEF Delete, Idle
<1>5. CASE c \in Unlink
  BY <1>5 DEF Unlink, Idle
<1>6. CASE c \in Link
  BY <1>6 DEF Link, Idle
<1>7. CASE c \in Refresh
  BY <1>7 DEF Refresh, Idle
<1>8. QED BY <1>1, <1>2, <1>3, <1>4, <1>5, <1>6, <1>7 DEF Calls

LEMMA NoRowIsNone == NoRow \notin Row
BY DEF NoRow, Row, AllKinds

LEMMA SessionParts ==
  ASSUME TypeOK, NEW r \in Sessions
  PROVE  session[r] \in Calls
BY DEF TypeOK, Calls

-----------------------------------------------------------------------------
(* Steps that only begin a call on a row that is there *)

LEMMA ReadStep ==
  ASSUME IInv, NEW r \in Sessions, NEW c \in Change \cup Delete \cup Link,
         Begin(r, c), Exists(c.asset),
         c.op \in {"change", "delete"} => c.users = Users(c.asset),
         UNCHANGED <<row, files, uses, approved, leftover, stripped, late>>
  PROVE  IInv'
<1> USE DEF IInv
<1>1. c \in Calls /\ c # Idle /\ c.op \in {"change", "delete", "link"} /\ c.asset \in Assets
  <2>1. CASE c \in Change
    BY <2>1 DEF Change, Calls, Idle
  <2>2. CASE c \in Delete
    BY <2>2 DEF Delete, Calls, Idle
  <2>3. CASE c \in Link
    BY <2>3 DEF Link, Calls, Idle
  <2>4. QED BY <2>1, <2>2, <2>3
<1>2. /\ session \in [Sessions -> Calls]
      /\ session[r] = Idle /\ session' = [session EXCEPT ![r] = c]
  BY DEF Begin, TypeOK, Calls
<1>3. /\ session' \in [Sessions -> Calls]
      /\ session'[r] = c
      /\ \A t \in Sessions \ {r} : session'[t] = session[t]
  BY <1>1, <1>2
<1>4. TypeOK'
  BY <1>3 DEF TypeOK, Calls
<1>5. RowHasBytes' /\ UsesExist'
  BY DEF RowHasBytes, UsesExist, Exists
<1>6. NoLeakedBytes'
  BY <1>2, <1>3 DEF NoLeakedBytes, Exists, Idle
<1>7. StoreOwns'
  BY <1>1, <1>2, <1>3 DEF StoreOwns, Exists
<1>8. UnlinkGone'
  BY <1>1, <1>3 DEF UnlinkGone, Exists
<1>9. UsersKnown'
  BY <1>1, <1>3 DEF UsersKnown, Users
<1>10. QED BY <1>4, <1>5, <1>6, <1>7, <1>8, <1>9

-----------------------------------------------------------------------------
(* Uploads *)

LEMMA UploadNewStep ==
  ASSUME IInv, NEW r \in Sessions, NEW kind \in AllKinds, NEW content \in Contents,
         NEW a \in Assets, UploadNew(r, kind, content, a)
  PROVE  IInv'
<1> USE DEF IInv
<1> DEFINE c == [op |-> "store", asset |-> a, row |-> NewRow(kind, content)]
<1>1. /\ session \in [Sessions -> Calls]
      /\ session[r] = Idle /\ session' = [session EXCEPT ![r] = c]
      /\ files' = files \cup {a}
      /\ UNCHANGED <<row, uses, approved, leftover, stripped, late>>
  BY DEF UploadNew, Begin, TypeOK, Calls
<1>2. /\ ~Exists(a) /\ a \notin files
      /\ \A t \in Sessions : session[t] # Idle => session[t].asset # a
  BY DEF UploadNew, Fresh
<1>3. NewRow(kind, content) \in Row
  BY DEF NewRow, Row, Reviewable
<1>4. c \in Store /\ c # Idle /\ c.op = "store" /\ c.asset = a
  BY <1>3 DEF Store, Idle
<1> HIDE DEF c
<1>5. /\ session' \in [Sessions -> Calls]
      /\ session'[r] = c
      /\ \A t \in Sessions \ {r} : session'[t] = session[t]
  BY <1>1, <1>4 DEF Calls
<1>6. TypeOK'
  BY <1>1, <1>5 DEF TypeOK, Calls
<1>7. RowHasBytes' /\ UsesExist'
  BY <1>1 DEF RowHasBytes, UsesExist, Exists
<1>8. NoLeakedBytes'
  BY <1>1, <1>4, <1>5 DEF NoLeakedBytes, Exists, Idle
<1>9. StoreOwns'
  BY <1>1, <1>2, <1>4, <1>5 DEF StoreOwns, Exists
<1>10. UnlinkGone'
  BY <1>1, <1>4, <1>5 DEF UnlinkGone, Exists
<1>11. UsersKnown'
  BY <1>1, <1>4, <1>5 DEF UsersKnown
<1>12. QED BY <1>6, <1>7, <1>8, <1>9, <1>10, <1>11

(* A file under a fresh name that no call knows. *)
LEMMA WriteFailsStep ==
  ASSUME IInv, NEW kind \in AllKinds, NEW content \in Contents, NEW a \in Assets,
         WriteFails(kind, content, a)
  PROVE  IInv'
<1> USE DEF IInv
<1>1. /\ files' = files \cup {a} /\ leftover' = leftover \cup {a}
      /\ UNCHANGED <<row, uses, approved, session, stripped, late>>
  BY DEF WriteFails
<1>2. TypeOK'
  BY <1>1 DEF TypeOK
<1>3. RowHasBytes' /\ UsesExist'
  BY <1>1 DEF RowHasBytes, UsesExist, Exists
<1>4. NoLeakedBytes'
  BY <1>1 DEF NoLeakedBytes, Exists
<1>5. StoreOwns' /\ UnlinkGone'
  BY <1>1 DEF StoreOwns, UnlinkGone, Exists
<1>6. UsersKnown'
  BY <1>1 DEF UsersKnown
<1>7. QED BY <1>2, <1>3, <1>4, <1>5, <1>6

LEMMA StoreCommitStep ==
  ASSUME IInv, NEW r \in Sessions, StoreCommit(r)
  PROVE  IInv'
<1> USE DEF IInv
<1> DEFINE a == session[r].asset
           new == session[r].row
           c == [op |-> "refresh", asset |-> a]
<1>1. /\ session[r].op = "store"
      /\ row' = [row EXCEPT ![a] = new]
      /\ session' = [session EXCEPT ![r] = c]
      /\ UNCHANGED <<files, uses, approved, leftover, stripped, late>>
  BY DEF StoreCommit
<1>2. a \in Assets /\ new \in Row
  BY <1>1, SessionParts, CallParts
<1>3. /\ ~Exists(a) /\ a \in files
      /\ \A t \in Sessions \ {r} : session[t] # Idle => session[t].asset # a
  BY <1>1 DEF StoreOwns
<1>c. c \in Refresh /\ c.op = "refresh" /\ c.asset = a
  BY <1>2 DEF Refresh
<1> HIDE DEF a, new, c
<1>4. /\ session \in [Sessions -> Calls]
      /\ session' \in [Sessions -> Calls]
      /\ session'[r] = c
      /\ \A t \in Sessions \ {r} : session'[t] = session[t]
  BY <1>1, <1>c DEF TypeOK, Calls
<1>5. /\ row' \in [Assets -> Row \cup {NoRow}]
      /\ row'[a] = new
      /\ \A b \in Assets \ {a} : row'[b] = row[b]
  BY <1>1, <1>2 DEF TypeOK
<1>e. \A b \in Assets : Exists(b)' <=> (b = a \/ Exists(b))
  BY <1>2, <1>5, NoRowIsNone DEF Exists
<1>6. TypeOK'
  BY <1>1, <1>4, <1>5 DEF TypeOK, Calls
<1>7. RowHasBytes'
  BY <1>1, <1>3, <1>5 DEF RowHasBytes, Exists
<1>8. UsesExist'
  BY <1>1, <1>e DEF UsesExist, TypeOK
<1>9. NoLeakedBytes'
  <2> SUFFICES ASSUME NEW b \in files \ leftover, ~Exists(b)'
               PROVE  \E q \in Sessions : session'[q].op \in {"store", "unlink"} /\ session'[q].asset = b
    BY <1>1 DEF NoLeakedBytes
  <2>1. b \in Assets /\ b # a /\ ~Exists(b)
    BY <1>e DEF TypeOK
  <2>2. PICK q \in Sessions : session[q].op \in {"store", "unlink"} /\ session[q].asset = b
    BY <2>1 DEF NoLeakedBytes
  <2>3. QED BY <1>4, <2>1, <2>2 DEF a
<1>10. StoreOwns'
  <2> SUFFICES ASSUME NEW t \in Sessions, session'[t].op = "store"
               PROVE  /\ ~Exists(session[t].asset)'
                      /\ session'[t].asset \in files'
                      /\ \A q \in Sessions \ {t} :
                           session'[q] # Idle => session'[q].asset # session'[t].asset
    BY DEF StoreOwns
  <2>1. t # r /\ session'[t] = session[t] /\ session[t] # Idle
    BY <1>4, <1>c DEF Idle
  <2>2. session[t].asset \in Assets /\ session[t].asset # a
    BY <1>3, <2>1, SessionParts, CallParts
  <2>3. ~Exists(session[t].asset)'
    BY <1>e, <2>1, <2>2 DEF StoreOwns, Exists
  <2>4. \A q \in Sessions \ {t} : session'[q] # Idle => session'[q].asset # session'[t].asset
    BY <1>4, <1>c, <2>1, <2>2 DEF StoreOwns
  <2>5. QED BY <1>1, <2>1, <2>3, <2>4 DEF StoreOwns
<1>11. UnlinkGone'
  <2> SUFFICES ASSUME NEW t \in Sessions, session'[t].op = "unlink"
               PROVE  ~Exists(session[t].asset)'
    BY DEF UnlinkGone
  <2>1. t # r /\ session'[t] = session[t] /\ session[t] # Idle
    BY <1>4, <1>c DEF Idle
  <2>2. session[t].asset \in Assets /\ session[t].asset # a
    BY <1>3, <2>1, SessionParts, CallParts
  <2>3. QED BY <1>e, <2>1, <2>2 DEF UnlinkGone, Exists
<1>12. UsersKnown'
  BY <1>1, <1>4, <1>c DEF UsersKnown
<1>13. QED BY <1>6, <1>7, <1>8, <1>9, <1>10, <1>11, <1>12

(* The end of a call that removes bytes. *)
LEMMA CleanUpStep ==
  ASSUME IInv, NEW r \in Sessions, session[r].op \in {"store", "unlink", "refresh"},
         CleanUp(session[r].asset), End(r),
         stripped \subseteq stripped', stripped' \subseteq Assets,
         Exists(session[r].asset) => session[r].asset \in files' \cup stripped',
         UNCHANGED <<row, uses, approved, late>>
  PROVE  IInv'
<1> USE DEF IInv
<1> DEFINE a == session[r].asset
<1>1. a \in Assets /\ session[r] # Idle
  BY SessionParts, CallParts DEF Idle
<1>2. Exists(a) => a \in files' \cup stripped'
  OBVIOUS
<1>3. /\ files' \subseteq files /\ files \ files' \subseteq {a}
      /\ leftover \ {a} \subseteq leftover' /\ leftover' \subseteq leftover \cup {a}
      /\ a \in files' => a \in leftover'
  BY DEF CleanUp
<1>4. /\ session \in [Sessions -> Calls]
      /\ session' \in [Sessions -> Calls]
      /\ session'[r] = Idle
      /\ \A t \in Sessions \ {r} : session'[t] = session[t]
  BY DEF End, TypeOK, Calls
<1>5. TypeOK'
  BY <1>1, <1>3, <1>4 DEF TypeOK, Calls
<1>6. RowHasBytes' /\ UsesExist'
  BY <1>2, <1>3 DEF RowHasBytes, UsesExist, Exists
<1>7. NoLeakedBytes'
  BY <1>3, <1>4 DEF NoLeakedBytes, Exists
<1>8. StoreOwns'
  <2> SUFFICES ASSUME NEW t \in Sessions, session'[t].op = "store"
               PROVE  /\ ~Exists(session[t].asset)'
                      /\ session'[t].asset \in files'
                      /\ \A q \in Sessions \ {t} :
                           session'[q] # Idle => session'[q].asset # session'[t].asset
    BY DEF StoreOwns
  <2>1. t # r /\ session'[t] = session[t]
    BY <1>4 DEF Idle
  <2>2. a # session[t].asset
    BY <1>1, <2>1 DEF StoreOwns
  <2>3. QED BY <1>3, <1>4, <2>1, <2>2 DEF StoreOwns, Exists
<1>9. UnlinkGone'
  BY <1>4 DEF UnlinkGone, Exists, Idle
<1>10. UsersKnown'
  BY <1>4 DEF UsersKnown, Idle
<1>11. QED BY <1>5, <1>6, <1>7, <1>8, <1>9, <1>10

(* The row is there: nothing but the call ends. *)
LEMMA RefreshStep ==
  ASSUME IInv, NEW r \in Sessions, RefreshRow(r)
  PROVE  IInv'
<1> USE DEF IInv
<1>1. /\ session[r].op = "refresh"
      /\ UNCHANGED <<row, files, uses, approved, leftover, stripped, late>>
  BY DEF RefreshRow
<1>2. /\ session \in [Sessions -> Calls]
      /\ session' \in [Sessions -> Calls]
      /\ session'[r] = Idle
      /\ \A t \in Sessions \ {r} : session'[t] = session[t]
  BY DEF RefreshRow, End, TypeOK, Calls
<1>3. TypeOK'
  BY <1>1, <1>2 DEF TypeOK, Calls
<1>4. RowHasBytes' /\ UsesExist'
  BY <1>1 DEF RowHasBytes, UsesExist, Exists
<1>5. NoLeakedBytes'
  BY <1>1, <1>2 DEF NoLeakedBytes, Exists
<1>6. StoreOwns' /\ UnlinkGone'
  BY <1>1, <1>2 DEF StoreOwns, UnlinkGone, Exists, Idle
<1>7. UsersKnown'
  BY <1>1, <1>2 DEF UsersKnown, Idle
<1>8. QED BY <1>3, <1>4, <1>5, <1>6, <1>7

LEMMA RefreshFailsStep ==
  ASSUME IInv, NEW r \in Sessions, RefreshFails(r)
  PROVE  IInv'
<1> DEFINE a == session[r].asset
<1>1. /\ session[r].op = "refresh" /\ CleanUp(a) /\ End(r)
      /\ stripped' = IF Exists(a) /\ a \notin files' THEN stripped \cup {a} ELSE stripped
      /\ UNCHANGED <<row, uses, approved, late>>
  BY DEF RefreshFails
<1>2. a \in Assets /\ stripped \subseteq Assets
  BY <1>1, SessionParts, CallParts DEF IInv, TypeOK, Idle
<1> HIDE DEF a
<1>3. /\ stripped \subseteq stripped' /\ stripped' \subseteq Assets
      /\ Exists(a) => a \in files' \cup stripped'
  BY <1>1, <1>2
<1>4. QED BY <1>1, <1>3, CleanUpStep DEF a

LEMMA RegisterStep ==
  ASSUME IInv, NEW content \in Contents, NEW a \in Assets, Register(content, a)
  PROVE  IInv'
<1> USE DEF IInv
<1>1. /\ row' = [row EXCEPT ![a] = NewRow("voice_preview", content)]
      /\ UNCHANGED <<files, uses, approved, session, leftover, stripped, late>>
      /\ ~Exists(a)
      /\ \A t \in Sessions : session[t] # Idle => session[t].asset # a
  BY DEF Register, Fresh
<1>2. NewRow("voice_preview", content) \in Row /\ NewRow("voice_preview", content).kind = "voice_preview"
  BY DEF NewRow, Row, Reviewable, AllKinds
<1>3. /\ row' \in [Assets -> Row \cup {NoRow}]
      /\ row'[a].kind = "voice_preview"
      /\ \A b \in Assets \ {a} : row'[b] = row[b]
      /\ \A b \in Assets : Exists(b) => Exists(b)'
  BY <1>1, <1>2, NoRowIsNone DEF TypeOK, Exists
<1>4. TypeOK'
  BY <1>1, <1>3 DEF TypeOK
<1>5. RowHasBytes'
  BY <1>1, <1>3 DEF RowHasBytes, Exists
<1>6. UsesExist'
  BY <1>1, <1>3 DEF UsesExist, TypeOK
<1>7. NoLeakedBytes'
  BY <1>1, <1>3 DEF NoLeakedBytes, TypeOK
<1>8. \A t \in Sessions : session[t] # Idle => (Exists(session[t].asset)' <=> Exists(session[t].asset))
  BY <1>1, <1>3, SessionParts, CallParts DEF Exists
<1>9. StoreOwns' /\ UnlinkGone'
  BY <1>1, <1>8 DEF StoreOwns, UnlinkGone, Idle
<1>10. UsersKnown'
  BY <1>1 DEF UsersKnown
<1>11. QED BY <1>4, <1>5, <1>6, <1>7, <1>9, <1>10

-----------------------------------------------------------------------------
(* Changes, deletions and references *)

LEMMA LateKept ==
  ASSUME IInv, NEW r \in Sessions, EndChange(r)
  PROVE  /\ session \in [Sessions -> Calls]
         /\ session' = [session EXCEPT ![r] = Idle]
         /\ late' \subseteq late
         /\ \A t \in Sessions \ {r}, s \in Stories :
              /\ session[t].op \in {"change", "delete"}
              /\ <<s, session[t].asset>> \in late
              => <<s, session[t].asset>> \in late'
<1>1. session \in [Sessions -> Calls] /\ session' = [session EXCEPT ![r] = Idle]
  BY DEF IInv, TypeOK, Calls, EndChange, End
<1>2. late' = {p \in late : Changing(p[2]) \ {r} # {}}
  BY DEF EndChange
<1>3. ASSUME NEW t \in Sessions \ {r}, NEW s \in Stories,
             session[t].op \in {"change", "delete"}, <<s, session[t].asset>> \in late
      PROVE  <<s, session[t].asset>> \in late'
  <2>1. t \in Changing(session[t].asset) \ {r}
    BY <1>3 DEF Changing
  <2>2. QED BY <1>2, <1>3, <2>1
<1>4. QED BY <1>1, <1>2, <1>3

(* The end of a change that leaves the existence and the kind of rows. *)
LEMMA EndChangeStep ==
  ASSUME IInv, NEW r \in Sessions, session[r].op \in {"change", "delete", "link"},
         EndChange(r), UNCHANGED <<files, uses, leftover, stripped>>,
         row' \in [Assets -> Row \cup {NoRow}], approved' \subseteq Stories,
         \A a \in Assets : (Exists(a)' <=> Exists(a)) /\ row'[a].kind = row[a].kind
  PROVE  IInv'
<1> USE DEF IInv
<1>1. /\ session \in [Sessions -> Calls]
      /\ late' \subseteq late
      /\ session' \in [Sessions -> Calls]
      /\ session'[r] = Idle
      /\ \A t \in Sessions \ {r} : session'[t] = session[t]
  BY LateKept DEF Calls
<1>2. TypeOK'
  BY <1>1 DEF TypeOK, Calls
<1>3. RowHasBytes' /\ NoLeakedBytes'
  BY <1>1 DEF RowHasBytes, NoLeakedBytes, TypeOK, Idle
<1>4. UsesExist'
  BY DEF UsesExist, TypeOK
<1>5. StoreOwns'
  BY <1>1, CallParts DEF StoreOwns, Idle
<1>6. UnlinkGone'
  BY <1>1, CallParts DEF UnlinkGone, Idle
<1>7. UsersKnown'
  <2> SUFFICES ASSUME NEW t \in Sessions, session'[t].op \in {"change", "delete"},
                      NEW s \in Stories, NEW w \in Ways, <<s, w, session'[t].asset>> \in uses'
               PROVE  s \in session'[t].users \/ <<s, session'[t].asset>> \in late'
    BY DEF UsersKnown
  <2>1. t # r /\ session'[t] = session[t]
    BY <1>1 DEF Idle
  <2>2. <<s, w, session[t].asset>> \in uses
    BY <2>1
  <2>3. QED BY <2>1, <2>2, LateKept DEF UsersKnown
<1>8. QED BY <1>2, <1>3, <1>4, <1>5, <1>6, <1>7

LEMMA ChangedRow ==
  ASSUME IInv, NEW r \in Sessions, ChangeCommit(r)
  PROVE  LET a == session[r].asset
         IN /\ a \in Assets
            /\ row' \in [Assets -> Row \cup {NoRow}]
            /\ \A b \in Assets : (Exists(b)' <=> Exists(b)) /\ row'[b].kind = row[b].kind
            /\ \A b \in Assets \ {a} : row'[b] = row[b]
<1> DEFINE c == session[r]
           a == c.asset
           state == Flush(c.seen.state, c.new.state, row[a].state)
           archived == Flush(c.seen.archived, c.new.archived, row[a].archived)
<1>1. c \in Calls /\ c.op = "change" /\ Exists(a)
  BY SessionParts DEF IInv, ChangeCommit
<1>2. a \in Assets /\ c.seen \in Row /\ c.new \in Row
  BY <1>1, CallParts, SessionParts DEF IInv, Idle
<1>3. row[a] \in Row
  BY <1>1, <1>2 DEF IInv, TypeOK, Exists
<1>4. state \in Reviewable \cup {"archived"} /\ archived \in BOOLEAN
  BY <1>2, <1>3 DEF Row, Flush
<1> HIDE DEF a, state, archived
<1>5. row' = [row EXCEPT ![a] = [row[a] EXCEPT !.state = state, !.archived = archived]]
  BY DEF ChangeCommit, a, state, archived
<1>6. /\ [row[a] EXCEPT !.state = state, !.archived = archived] \in Row
      /\ [row[a] EXCEPT !.state = state, !.archived = archived].kind = row[a].kind
  BY <1>3, <1>4 DEF Row
<1>7. /\ row' \in [Assets -> Row \cup {NoRow}]
      /\ row'[a] \in Row /\ row'[a].kind = row[a].kind
      /\ \A b \in Assets \ {a} : row'[b] = row[b]
  BY <1>2, <1>5, <1>6 DEF IInv, TypeOK
<1>8. \A b \in Assets : (Exists(b)' <=> Exists(b)) /\ row'[b].kind = row[b].kind
  BY <1>3, <1>7, NoRowIsNone DEF Exists
<1>9. QED BY <1>2, <1>7, <1>8 DEF a

LEMMA DeleteCommitStep ==
  ASSUME IInv, NEW r \in Sessions, DeleteCommit(r)
  PROVE  IInv'
<1> USE DEF IInv
<1> DEFINE a == session[r].asset
           c == [op |-> "unlink", asset |-> a]
<1>1. /\ session[r].op = "delete"
      /\ row' = [row EXCEPT ![a] = NoRow]
      /\ uses' = {u \in uses : u[3] # a}
      /\ approved' = approved \ session[r].users
      /\ session' = [session EXCEPT ![r] = c]
      /\ late' = {p \in late : Changing(p[2]) \ {r} # {}}
      /\ stripped' = stripped \ {a}
      /\ UNCHANGED <<files, leftover>>
  BY DEF DeleteCommit, Reopen
<1>2. session[r] # Idle /\ a \in Assets
  BY <1>1, SessionParts, CallParts DEF Idle
<1>3. c \in Unlink /\ c # Idle /\ c.op = "unlink" /\ c.asset = a
  BY <1>2 DEF Unlink, Idle
<1> HIDE DEF c
<1>4. /\ session \in [Sessions -> Calls]
      /\ session' \in [Sessions -> Calls]
      /\ session'[r] = c
      /\ \A t \in Sessions \ {r} : session'[t] = session[t]
  BY <1>1, <1>3 DEF TypeOK, Calls
<1>5. /\ row' \in [Assets -> Row \cup {NoRow}]
      /\ row'[a] = NoRow
      /\ \A b \in Assets \ {a} : row'[b] = row[b]
  BY <1>1, <1>2 DEF TypeOK
<1>e. \A b \in Assets : Exists(b)' <=> (b # a /\ Exists(b))
  BY <1>2, <1>5 DEF Exists
<1>6. TypeOK'
  BY <1>1, <1>4, <1>5 DEF TypeOK, Calls
<1>7. RowHasBytes'
  BY <1>1, <1>5 DEF RowHasBytes, Exists
<1>8. NoLeakedBytes'
  BY <1>1, <1>2, <1>3, <1>4, <1>e DEF NoLeakedBytes, TypeOK
<1>9. UsesExist'
  BY <1>1, <1>e DEF UsesExist, TypeOK
<1>10. StoreOwns'
  <2> SUFFICES ASSUME NEW t \in Sessions, session'[t].op = "store"
               PROVE  /\ ~Exists(session[t].asset)'
                      /\ session'[t].asset \in files'
                      /\ \A q \in Sessions \ {t} :
                           session'[q] # Idle => session'[q].asset # session'[t].asset
    BY DEF StoreOwns
  <2>1. t # r /\ session'[t] = session[t]
    BY <1>3, <1>4
  <2>2. a # session[t].asset
    BY <1>2, <2>1 DEF StoreOwns
  <2>3. session[t].asset \in Assets
    BY <2>1, SessionParts, CallParts DEF Idle
  <2>4. ~Exists(session[t].asset)'
    BY <1>5, <2>1, <2>2, <2>3 DEF StoreOwns, Exists
  <2>5. session'[t].asset \in files'
    BY <1>1, <2>1 DEF StoreOwns
  <2>6. ASSUME NEW q \in Sessions \ {t}, session'[q] # Idle
        PROVE  session'[q].asset # session'[t].asset
    <3>1. CASE q = r
      BY <1>3, <1>4, <2>1, <2>2, <3>1
    <3>2. CASE q # r
      BY <1>4, <2>1, <2>6, <3>2 DEF StoreOwns
    <3>3. QED BY <3>1, <3>2
  <2>7. QED BY <2>1, <2>4, <2>5, <2>6
<1>11. UnlinkGone'
  <2> SUFFICES ASSUME NEW t \in Sessions, session'[t].op = "unlink"
               PROVE  ~Exists(session[t].asset)'
    BY DEF UnlinkGone
  <2>1. CASE t = r
    BY <1>1, <1>2, <1>3, <1>4, <2>1 DEF TypeOK, Exists
  <2>2. CASE t # r
    <3>1. session'[t] = session[t] /\ session[t].asset \in Assets
      BY <1>4, <2>2, SessionParts, CallParts DEF Idle
    <3>2. ~Exists(session[t].asset)
      BY <2>2, <3>1 DEF UnlinkGone
    <3>3. QED BY <1>1, <1>2, <3>1, <3>2 DEF TypeOK, Exists
  <2>3. QED BY <2>1, <2>2
<1>12. UsersKnown'
  <2> SUFFICES ASSUME NEW t \in Sessions, session'[t].op \in {"change", "delete"},
                      NEW s \in Stories, NEW w \in Ways, <<s, w, session'[t].asset>> \in uses'
               PROVE  s \in session'[t].users \/ <<s, session'[t].asset>> \in late'
    BY DEF UsersKnown
  <2>1. t # r /\ session'[t] = session[t]
    BY <1>3, <1>4
  <2>2. <<s, w, session[t].asset>> \in uses
    BY <1>1, <2>1
  <2>3. t \in Changing(session[t].asset) \ {r}
    BY <2>1 DEF Changing
  <2>4. QED BY <1>1, <2>1, <2>2, <2>3 DEF UsersKnown
<1>13. QED BY <1>6, <1>7, <1>8, <1>9, <1>10, <1>11, <1>12

(* A new reference, made by a call that is over then or by nobody. *)
LEMMA ReferStep ==
  ASSUME IInv, NEW s \in Stories, NEW w \in Ways, NEW a \in Assets,
         Exists(a), Refer(s, w, a), UNCHANGED <<row, files, leftover, stripped>>,
         \/ UNCHANGED session
         \/ \E r \in Sessions : session[r].op = "link" /\ End(r)
  PROVE  IInv'
<1> USE DEF IInv
<1>1. /\ uses' = uses \cup {<<s, w, a>>}
      /\ late' = IF Changing(a) = {} THEN late ELSE late \cup {<<s, a>>}
      /\ approved' = approved \ {s}
  BY DEF Refer, Reopen
<1>2. /\ session \in [Sessions -> Calls]
      /\ session' \in [Sessions -> Calls]
      /\ \A t \in Sessions :
           session'[t] = session[t] \/ (session'[t] = Idle /\ session[t].op = "link")
  BY DEF End, TypeOK, Calls
<1>3. TypeOK'
  BY <1>1, <1>2 DEF TypeOK, Calls
<1>4. RowHasBytes'
  BY DEF RowHasBytes, Exists
<1>5. NoLeakedBytes'
  BY <1>2 DEF NoLeakedBytes, Exists
<1>6. UsesExist'
  BY <1>1 DEF UsesExist, Exists
<1>7. StoreOwns'
  BY <1>2 DEF StoreOwns, Exists, Idle
<1>8. UnlinkGone'
  BY <1>2 DEF UnlinkGone, Exists, Idle
<1>9. UsersKnown'
  <2> SUFFICES ASSUME NEW t \in Sessions, session'[t].op \in {"change", "delete"},
                      NEW u \in Stories, NEW x \in Ways, <<u, x, session'[t].asset>> \in uses'
               PROVE  u \in session'[t].users \/ <<u, session'[t].asset>> \in late'
    BY DEF UsersKnown
  <2>1. session'[t] = session[t]
    BY <1>2 DEF Idle
  <2>2. CASE <<u, x, session[t].asset>> \in uses
    BY <1>1, <2>1, <2>2 DEF UsersKnown
  <2>3. CASE <<u, x, session[t].asset>> \notin uses
    <3>1. u = s /\ session[t].asset = a
      BY <1>1, <2>1, <2>3
    <3>2. t \in Changing(a)
      BY <2>1, <3>1 DEF Changing
    <3>3. QED BY <1>1, <2>1, <3>1, <3>2
  <2>4. QED BY <2>2, <2>3
<1>10. QED BY <1>3, <1>4, <1>5, <1>6, <1>7, <1>8, <1>9

LEMMA DropStep ==
  ASSUME IInv, NEW s \in Stories, NEW w \in Ways, NEW a \in Assets, Drop(s, w, a)
  PROVE  IInv'
<1> USE DEF IInv
<1>1. /\ uses' = uses \ {<<s, w, a>>} /\ approved' = approved \ {s}
      /\ UNCHANGED <<row, files, session, leftover, stripped, late>>
  BY DEF Drop, Reopen
<1>2. TypeOK'
  BY <1>1 DEF TypeOK
<1>3. RowHasBytes' /\ NoLeakedBytes' /\ StoreOwns' /\ UnlinkGone' /\ UsesExist'
  BY <1>1 DEF RowHasBytes, NoLeakedBytes, StoreOwns, UnlinkGone, UsesExist, Exists
<1>4. UsersKnown'
  BY <1>1 DEF UsersKnown, Users
<1>5. QED BY <1>2, <1>3, <1>4

LEMMA DieStep ==
  ASSUME IInv, Die
  PROVE  IInv'
<1> USE DEF IInv
<1>1. /\ session' = [r \in Sessions |-> Idle]
      /\ leftover' = leftover \cup {a \in files : \E r \in Sessions :
                       session[r].op \in {"store", "unlink"} /\ session[r].asset = a}
      /\ late' = {}
      /\ UNCHANGED <<row, files, uses, approved, stripped>>
  BY DEF Die
<1>2. TypeOK'
  BY <1>1 DEF TypeOK
<1>3. RowHasBytes' /\ NoLeakedBytes' /\ UsesExist'
  BY <1>1 DEF RowHasBytes, NoLeakedBytes, UsesExist, Exists
<1>4. StoreOwns' /\ UnlinkGone' /\ UsersKnown'
  BY <1>1 DEF StoreOwns, UnlinkGone, UsersKnown, Idle
<1>5. QED BY <1>2, <1>3, <1>4
-----------------------------------------------------------------------------
(* The invariant *)

LEMMA InitIInv == Init => IInv
<1> SUFFICES ASSUME Init PROVE IInv
  OBVIOUS
<1> USE DEF Init
<1>1. TypeOK
  BY DEF TypeOK
<1>2. RowHasBytes /\ NoLeakedBytes /\ UsesExist
  BY DEF RowHasBytes, NoLeakedBytes, UsesExist, Exists
<1>3. StoreOwns /\ UnlinkGone /\ UsersKnown
  BY DEF StoreOwns, UnlinkGone, UsersKnown, Idle
<1>4. QED BY <1>1, <1>2, <1>3 DEF IInv

(* The reads of calls that change, delete or link an asset. *)
LEMMA ReadSteps ==
  ASSUME IInv, NEW r \in Sessions
  PROVE  /\ \A kind \in AllKinds, content \in Contents : UploadAgain(r, kind, content) => IInv'
         /\ \A a \in Assets, state \in Targets : TransitionRead(r, a, state) => IInv'
         /\ \A a \in Assets : ArchiveRead(r, a) => IInv'
         /\ \A a \in Assets, force \in BOOLEAN : DeleteRead(r, a, force) => IInv'
         /\ \A a \in Assets, s \in Stories : LinkRead(r, s, a) => IInv'
<1>r. \A a \in Assets : Exists(a) => row[a] \in Row
  BY DEF IInv, TypeOK, Exists
<1>u. \A a \in Assets : Users(a) \subseteq Stories
  BY DEF Users
<1>1. ASSUME NEW kind \in AllKinds, NEW content \in Contents, UploadAgain(r, kind, content)
      PROVE  IInv'
  <2>1. PICK a \in Same(kind, content) :
          /\ row[a].archived
          /\ Begin(r, [op |-> "change", asset |-> a, seen |-> row[a], new |-> Unarchived(row[a]),
                       users |-> Users(a)])
          /\ UNCHANGED <<row, files, uses, approved, leftover, stripped, late>>
    BY <1>1 DEF UploadAgain
  <2>2. a \in Assets /\ Exists(a)
    BY DEF Same
  <2> DEFINE c == [op |-> "change", asset |-> a, seen |-> row[a], new |-> Unarchived(row[a]),
                   users |-> Users(a)]
  <2>3. Unarchived(row[a]) \in Row
    BY <1>r, <2>2 DEF Unarchived, Row, Reviewable
  <2>4. c \in Change
    BY <1>r, <1>u, <2>2, <2>3 DEF Change
  <2>5. QED BY <2>1, <2>2, <2>4, ReadStep
<1>2. ASSUME NEW a \in Assets, NEW state \in Targets, TransitionRead(r, a, state) PROVE IInv'
  <2> DEFINE c == [op |-> "change", asset |-> a, seen |-> row[a],
                   new |-> [row[a] EXCEPT !.state = state], users |-> Users(a)]
  <2>1. [row[a] EXCEPT !.state = state] \in Row
    BY <1>2, <1>r, BoundsAssumption DEF TransitionRead, Row
  <2>2. c \in Change
    BY <1>2, <1>r, <1>u, <2>1 DEF Change, TransitionRead
  <2>3. QED BY <1>2, <2>2, ReadStep DEF TransitionRead
<1>3. ASSUME NEW a \in Assets, ArchiveRead(r, a) PROVE IInv'
  <2> DEFINE c == [op |-> "change", asset |-> a, seen |-> row[a],
                   new |-> [row[a] EXCEPT !.archived = TRUE, !.state = "archived"],
                   users |-> Users(a)]
  <2>1. [row[a] EXCEPT !.archived = TRUE, !.state = "archived"] \in Row
    BY <1>3, <1>r DEF ArchiveRead, Row
  <2>2. c \in Change
    BY <1>3, <1>r, <1>u, <2>1 DEF Change, ArchiveRead
  <2>3. QED BY <1>3, <2>2, ReadStep DEF ArchiveRead
<1>4. ASSUME NEW a \in Assets, NEW force \in BOOLEAN, DeleteRead(r, a, force) PROVE IInv'
  <2> DEFINE c == [op |-> "delete", asset |-> a, users |-> Users(a)]
  <2>1. c \in Delete
    BY <1>u DEF Delete
  <2>2. QED BY <1>4, <2>1, ReadStep DEF DeleteRead
<1>5. ASSUME NEW a \in Assets, NEW s \in Stories, LinkRead(r, s, a) PROVE IInv'
  <2> DEFINE c == [op |-> "link", asset |-> a, story |-> s]
  <2>1. c \in Link
    BY DEF Link
  <2>2. QED BY <1>5, <2>1, ReadStep DEF LinkRead
<1>6. QED BY <1>1, <1>2, <1>3, <1>4, <1>5

LEMMA NextIInv == IInv /\ [Next]_vars => IInv'
<1> SUFFICES ASSUME IInv, [Next]_vars PROVE IInv'
  OBVIOUS
<1>1. ASSUME NEW r \in Sessions, NEW kind \in AllKinds, NEW content \in Contents,
             \/ \E a \in Assets : UploadNew(r, kind, content, a)
             \/ UploadAgain(r, kind, content)
      PROVE  IInv'
  BY <1>1, UploadNewStep, ReadSteps
<1>2. ASSUME NEW r \in Sessions, NEW a \in Assets,
             \/ \E state \in Targets : TransitionRead(r, a, state)
             \/ ArchiveRead(r, a)
             \/ \E force \in BOOLEAN : DeleteRead(r, a, force)
             \/ \E s \in Stories : LinkRead(r, s, a)
      PROVE  IInv'
  BY <1>2, ReadSteps
<1>3. ASSUME NEW r \in Sessions, StoreCommit(r) PROVE IInv'
  BY <1>3, StoreCommitStep
<1>4. ASSUME NEW r \in Sessions, StoreFails(r) \/ DeleteBytes(r) PROVE IInv'
  <2>1. /\ session[r].op \in {"store", "unlink"} /\ CleanUp(session[r].asset) /\ End(r)
        /\ UNCHANGED <<row, uses, approved, stripped, late>>
    BY <1>4 DEF StoreFails, DeleteBytes
  <2>2. ~Exists(session[r].asset) /\ stripped \subseteq Assets
    BY <2>1 DEF IInv, StoreOwns, UnlinkGone, TypeOK
  <2>3. QED BY <2>1, <2>2, CleanUpStep
<1>5. ASSUME NEW r \in Sessions, ChangeCommit(r) PROVE IInv'
  <2>1. /\ row' \in [Assets -> Row \cup {NoRow}]
        /\ \A a \in Assets : (Exists(a)' <=> Exists(a)) /\ row'[a].kind = row[a].kind
    BY <1>5, ChangedRow
  <2>2. approved' \subseteq Stories
    BY <1>5 DEF ChangeCommit, Reopen, IInv, TypeOK
  <2>3. session[r].op = "change" /\ EndChange(r) /\ UNCHANGED <<files, uses, leftover, stripped>>
    BY <1>5 DEF ChangeCommit
  <2>4. QED BY <2>1, <2>2, <2>3, EndChangeStep
<1>6. ASSUME NEW r \in Sessions, Abort(r) PROVE IInv'
  <2>1. /\ session[r].op \in {"change", "delete", "link"} /\ EndChange(r)
        /\ UNCHANGED <<row, files, uses, approved, leftover, stripped>>
    BY <1>6 DEF Abort
  <2>2. /\ row' \in [Assets -> Row \cup {NoRow}] /\ approved' \subseteq Stories
        /\ \A a \in Assets : (Exists(a)' <=> Exists(a)) /\ row'[a].kind = row[a].kind
    BY <2>1 DEF IInv, TypeOK, Exists
  <2>3. QED BY <2>1, <2>2, EndChangeStep
<1>7. ASSUME NEW r \in Sessions, DeleteCommit(r) PROVE IInv'
  BY <1>7, DeleteCommitStep
<1>8. ASSUME NEW r \in Sessions, LinkCommit(r) PROVE IInv'
  <2>1. session[r].asset \in Assets /\ session[r].story \in Stories
    BY <1>8, SessionParts, CallParts DEF LinkCommit, IInv, Idle
  <2>2. "character" \in Ways
    BY DEF Ways
  <2>3. /\ session[r].op = "link" /\ Exists(session[r].asset)
        /\ Refer(session[r].story, "character", session[r].asset)
        /\ End(r) /\ UNCHANGED <<row, files, leftover, stripped>>
    BY <1>8 DEF LinkCommit
  <2>4. QED BY <2>1, <2>2, <2>3, ReferStep
<1>9. ASSUME NEW content \in Contents, NEW a \in Assets, Register(content, a) PROVE IInv'
  BY <1>9, RegisterStep
<1>10. ASSUME NEW s \in Stories, Approve(s) PROVE IInv'
  BY <1>10 DEF Approve, IInv, TypeOK, RowHasBytes, NoLeakedBytes, StoreOwns, UnlinkGone,
               UsesExist, UsersKnown, Exists
<1>11. ASSUME NEW s \in Stories, NEW w \in Ways, NEW a \in Assets,
              Attach(s, w, a) \/ Drop(s, w, a)
       PROVE  IInv'
  <2>1. CASE Attach(s, w, a)
    BY <2>1, ReferStep DEF Attach
  <2>2. CASE Drop(s, w, a)
    BY <2>2, DropStep
  <2>3. QED BY <1>11, <2>1, <2>2
<1>12. CASE Die
  BY <1>12, DieStep
<1>a. ASSUME NEW r \in Sessions, RefreshRow(r) \/ RefreshFails(r) PROVE IInv'
  BY <1>a, RefreshStep, RefreshFailsStep
<1>b. ASSUME NEW kind \in Kinds, NEW content \in Contents, NEW a \in Assets,
             WriteFails(kind, content, a)
      PROVE  IInv'
  BY <1>b, WriteFailsStep, KindsAssumption
<1>13. CASE UNCHANGED vars
  BY <1>13 DEF vars, IInv, TypeOK, RowHasBytes, NoLeakedBytes, StoreOwns, UnlinkGone,
               UsesExist, UsersKnown, Exists
<1>14. QED
  BY <1>1, <1>2, <1>3, <1>4, <1>5, <1>6, <1>7, <1>8, <1>9, <1>10, <1>11, <1>12, <1>13,
     <1>a, <1>b, KindsAssumption DEF Next

LEMMA Invariance == Spec => []IInv
BY InitIInv, NextIInv, PTL DEF Spec

(* Assets: whatever uploads, deletions, failures and deaths interleave,    *)
(* every uploaded asset has its bytes unless the error handler of its own  *)
(* upload took them after the commit, and bytes without a row belong to a  *)
(* call under way or were left by a death, a failed write or a failed      *)
(* unlink.                                                                 *)
THEOREM FilesAlwaysMatchRows == Spec => []FilesMatchRows
<1>1. IInv => FilesMatchRows
  BY DEF IInv, FilesMatchRows
<1>2. QED BY <1>1, Invariance, PTL

-----------------------------------------------------------------------------
(* What approved plans see *)

LEMMA SeenStep ==
  ASSUME IInv, Next, NEW s \in approved, s \in approved',
         \A a \in Assets : <<s, a>> \notin late
  PROVE  Seen(s)' = Seen(s)
<1> USE DEF IInv
<1>0. s \in Stories /\ uses \subseteq Stories \X Ways \X Assets
  BY DEF TypeOK
(* It is enough that the references of s and their rows stay. *)
<1>a. ASSUME \A u : (u \in uses' /\ u[1] = s) <=> (u \in uses /\ u[1] = s),
             \A u \in uses : u[1] = s => row'[u[3]] = row[u[3]]
      PROVE  Seen(s)' = Seen(s)
  BY <1>a DEF Seen
<1>b. ASSUME UNCHANGED <<row, uses>> PROVE Seen(s)' = Seen(s)
  BY <1>b DEF Seen
(* A row that is new is in no plan. *)
<1>c. ASSUME NEW a \in Assets, ~Exists(a), NEW new, row' = [row EXCEPT ![a] = new], uses' = uses
      PROVE  Seen(s)' = Seen(s)
  <2>1. \A u \in uses : u[3] \in Assets \ {a}
    BY <1>0, <1>c DEF UsesExist
  <2>2. \A u \in uses : row'[u[3]] = row[u[3]]
    BY <1>c, <2>1 DEF TypeOK
  <2>3. QED BY <1>a, <1>c, <2>2
(* An asset that a call changes or deletes is in no plan that stays        *)
(* approved.                                                               *)
<1>d. ASSUME NEW r \in Sessions, session[r].op \in {"change", "delete"},
             approved' = approved \ session[r].users
      PROVE  \A u \in uses : u[1] = s => u[3] # session[r].asset
  <2>1. s \notin session[r].users
    BY <1>d
  <2>2. session[r].asset \in Assets
    BY <1>d, SessionParts, CallParts DEF Idle
  <2>3. \A w \in Ways : <<s, w, session[r].asset>> \notin uses
    BY <1>0, <1>d, <2>1, <2>2 DEF UsersKnown
  <2>4. QED BY <1>0, <2>3
(* A reference of another story. *)
<1>e. ASSUME NEW t \in Stories, NEW w, NEW a, approved' = approved \ {t},
             uses' = uses \cup {<<t, w, a>>} \/ uses' = uses \ {<<t, w, a>>}, row' = row
      PROVE  Seen(s)' = Seen(s)
  <2>1. t # s
    BY <1>e
  <2>2. QED BY <1>a, <1>e, <2>1
<1>1. ASSUME NEW r \in Sessions, NEW kind \in Kinds, NEW content \in Contents,
             \/ \E a \in Assets : UploadNew(r, kind, content, a)
             \/ UploadAgain(r, kind, content)
      PROVE  Seen(s)' = Seen(s)
  BY <1>1, <1>b DEF UploadNew, UploadAgain
<1>2. ASSUME NEW r \in Sessions, NEW a \in Assets,
             \/ \E state \in Targets : TransitionRead(r, a, state)
             \/ ArchiveRead(r, a)
             \/ \E force \in BOOLEAN : DeleteRead(r, a, force)
             \/ \E t \in Stories : LinkRead(r, t, a)
      PROVE  Seen(s)' = Seen(s)
  BY <1>2, <1>b DEF TransitionRead, ArchiveRead, DeleteRead, LinkRead
<1>3. ASSUME NEW r \in Sessions, StoreCommit(r) PROVE Seen(s)' = Seen(s)
  <2>1. session[r].op = "store" /\ session[r].asset \in Assets /\ ~Exists(session[r].asset)
    BY <1>3, SessionParts, CallParts DEF StoreCommit, StoreOwns, Idle
  <2>2. row' = [row EXCEPT ![session[r].asset] = session[r].row] /\ uses' = uses
    BY <1>3 DEF StoreCommit
  <2>3. QED BY <1>c, <2>1, <2>2
<1>4. ASSUME NEW r \in Sessions,
             StoreFails(r) \/ RefreshRow(r) \/ RefreshFails(r) \/ DeleteBytes(r) \/ Abort(r)
      PROVE  Seen(s)' = Seen(s)
  BY <1>4, <1>b DEF StoreFails, RefreshRow, RefreshFails, DeleteBytes, Abort
<1>5. ASSUME NEW r \in Sessions, ChangeCommit(r) PROVE Seen(s)' = Seen(s)
  <2>1. session[r].op = "change" /\ approved' = approved \ session[r].users /\ uses' = uses
    BY <1>5 DEF ChangeCommit, Reopen
  <2>2. \A b \in Assets \ {session[r].asset} : row'[b] = row[b]
    BY <1>5, ChangedRow
  <2>3. \A u \in uses : u[1] = s => row'[u[3]] = row[u[3]]
    BY <1>0, <1>d, <2>1, <2>2
  <2>4. QED BY <1>a, <2>1, <2>3
<1>6. ASSUME NEW r \in Sessions, DeleteCommit(r) PROVE Seen(s)' = Seen(s)
  <2>1. /\ session[r].op = "delete" /\ approved' = approved \ session[r].users
        /\ row' = [row EXCEPT ![session[r].asset] = NoRow]
        /\ uses' = {u \in uses : u[3] # session[r].asset}
    BY <1>6 DEF DeleteCommit, Reopen
  <2>2. \A u \in uses : u[1] = s => u[3] # session[r].asset
    BY <1>d, <2>1
  <2>3. \A u \in uses : u[1] = s => row'[u[3]] = row[u[3]]
    BY <1>0, <2>1, <2>2 DEF TypeOK
  <2>4. QED BY <1>a, <2>1, <2>2, <2>3
<1>7. ASSUME NEW r \in Sessions, LinkCommit(r) PROVE Seen(s)' = Seen(s)
  <2>1. session[r].story \in Stories
    BY <1>7, SessionParts, CallParts DEF LinkCommit
  <2>2. QED BY <1>7, <1>e, <2>1 DEF LinkCommit, Refer, Reopen
<1>8. ASSUME NEW content \in Contents, NEW a \in Assets,
             \/ \E kind \in Kinds : WriteFails(kind, content, a)
             \/ Register(content, a)
      PROVE  Seen(s)' = Seen(s)
  BY <1>8, <1>b, <1>c DEF WriteFails, Register, Fresh
<1>9. ASSUME NEW t \in Stories, Approve(t) PROVE Seen(s)' = Seen(s)
  BY <1>9, <1>b DEF Approve
<1>10. ASSUME NEW t \in Stories, NEW w \in Ways, NEW a \in Assets,
              Attach(t, w, a) \/ Drop(t, w, a)
       PROVE  Seen(s)' = Seen(s)
  BY <1>10, <1>e DEF Attach, Refer, Drop, Reopen
<1>11. CASE Die
  BY <1>11, <1>b DEF Die
<1>12. QED
  BY <1>1, <1>2, <1>3, <1>4, <1>5, <1>6, <1>7, <1>8, <1>9, <1>10, <1>11 DEF Next

(* Assets: what an approved plan shows of its assets stays while the plan  *)
(* is approved; the one exception is an asset it took up while a change of *)
(* that asset was under way.                                               *)
THEOREM ApprovedStaysUntouched == Spec => ApprovedIsUntouched
<1> DEFINE Untouched ==
      \A s \in approved : s \in approved' /\ (\A a \in Assets : <<s, a>> \notin late)
                             => Seen(s)' = Seen(s)
<1>1. IInv /\ [Next]_vars => [Untouched]_vars
  <2> SUFFICES ASSUME IInv, Next PROVE Untouched
    OBVIOUS
  <2>1. QED BY SeenStep
<1>2. QED BY <1>1, Invariance, PTL DEF Spec, ApprovedIsUntouched
=============================================================================
