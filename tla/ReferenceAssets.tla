--------------------------- MODULE ReferenceAssets ---------------------------
(***************************************************************************)
(* The media assets of a project: backend/app/services/reference_assets.py *)
(* and planning_assets.py.  The bytes of an upload are a file under a      *)
(* generated name, which no other upload gets; its row is committed after  *)
(* the bytes are written, and a deletion removes the bytes after the row.  *)
(* The same bytes of the same kind are stored once.                        *)
(*                                                                         *)
(* A call reads in one step and commits in another.  No call locks the row *)
(* of an asset.  One that changes an asset looks up the stories that use   *)
(* it, and locks them when it commits.                                     *)
(*                                                                         *)
(* Left out: file names, media types, sizes and extracted metadata, which  *)
(* decide only whether an upload is accepted, and audit rows.              *)
(***************************************************************************)
EXTENDS Naturals, FiniteSets

CONSTANTS Sessions,       \* calls that can be under way at a time
          Assets,         \* ids of rows; a row's id also names its file
          Contents,       \* digests of bytes
          Kinds,          \* bound: kinds of the assets
          Stories,        \* stories of the project
          Targets,        \* bound: states a review asks for
          MaxUses         \* bound: references of plans to assets

AllKinds == {"character_reference", "starting_image", "voice_source", "story_document",
             "voice_preview"}

ASSUME KindsAssumption == Kinds \subseteq AllKinds

(* How the plan of a story refers to an asset. *)
Ways == {"shot", "character", "voice", "preview"}

(* ACTIVE_APPROVAL_STATES *)
Reviewable == {"draft", "in_review", "approved", "blocked"}

ASSUME BoundsAssumption == Targets \subseteq Reviewable /\ MaxUses \in Nat

Row == [kind : AllKinds, content : Contents, state : Reviewable \cup {"archived"},
        archived : BOOLEAN]
NoRow == [kind |-> "none"]

(* What a call under way has read: the name it stored bytes under, or the  *)
(* row it is going to change and the stories that used it.                 *)
Idle == [op |-> "idle"]
Store == [op : {"store"}, asset : Assets, row : Row]
Change == [op : {"change"}, asset : Assets, seen : Row, new : Row, users : SUBSET Stories]
Delete == [op : {"delete"}, asset : Assets, users : SUBSET Stories]
Unlink == [op : {"unlink"}, asset : Assets]
Refresh == [op : {"refresh"}, asset : Assets]
Link == [op : {"link"}, asset : Assets, story : Stories]

VARIABLES
  row,      \* planning_media_assets
  files,    \* names of the files in the managed directory
  uses,     \* references from a story's plan: <<story, way, asset>>
  approved, \* the stories whose approval_state is "approved"
  session,  \* what each call under way has read
  leftover, \* history: files a death or a failed write or unlink left behind
  stripped, \* history: rows that lost their bytes to the error handler of their own upload
  late      \* history: references made while their asset was about to change

vars == <<row, files, uses, approved, session, leftover, stripped, late>>

TypeOK ==
  /\ row \in [Assets -> Row \cup {NoRow}]
  /\ files \subseteq Assets
  /\ uses \subseteq Stories \X Ways \X Assets
  /\ approved \subseteq Stories
  /\ session \in [Sessions -> {Idle} \cup Store \cup Change \cup Delete \cup Unlink \cup Link
                           \cup Refresh]
  /\ leftover \subseteq Assets /\ stripped \subseteq Assets
  /\ late \subseteq Stories \X Assets

Init ==
  /\ row = [a \in Assets |-> NoRow]
  /\ files = {} /\ uses = {} /\ approved = {} /\ leftover = {} /\ stripped = {} /\ late = {}
  /\ session = [r \in Sessions |-> Idle]

-----------------------------------------------------------------------------
Exists(a) == row[a] # NoRow

(* Calls that are about to change or delete asset a. *)
Changing(a) == {r \in Sessions : session[r].op \in {"change", "delete"} /\ session[r].asset = a}

(* Mutant: the file is named after its bytes. *)
FreshByContent(a) == ~Exists(a)

(* A generated id: nothing in the database, on disk or under way has it. *)
Fresh(a) ==
  /\ ~Exists(a) /\ a \notin files
  /\ \A r \in Sessions : session[r] # Idle => session[r].asset # a

(* Mutant: voices are forgotten. *)
UsersSeen(a) == {s \in Stories : \E w \in {"shot", "character"} : <<s, w, a>> \in uses}

(* _story_ids_referencing_asset *)
Users(a) == {s \in Stories : \E w \in Ways : <<s, w, a>> \in uses}

(* _mark_stories_draft *)
Reopen(stories) == approved' = approved \ stories

Begin(r, call) ==
  /\ session[r] = Idle
  /\ session' = [session EXCEPT ![r] = call]
End(r) == session' = [session EXCEPT ![r] = Idle]

(* The end of a call that was about to change an asset. *)
EndChange(r) ==
  /\ End(r)
  /\ late' = {p \in late : Changing(p[2]) \ {r} # {}}

(* A call that reads and then fails, or has its transaction rolled back. *)
Abort(r) ==
  /\ session[r].op \in {"change", "delete", "link"}
  /\ EndChange(r)
  /\ UNCHANGED <<row, files, uses, approved, leftover, stripped>>

-----------------------------------------------------------------------------
(* upload_asset *)

NewRow(kind, content) ==
  [kind |-> kind, content |-> content, state |-> "draft", archived |-> FALSE]

Same(kind, content) ==
  {a \in Assets : Exists(a) /\ row[a].kind = kind /\ row[a].content = content}

(* The bytes are written before anything is committed. *)
UploadNew(r, kind, content, a) ==
  /\ Same(kind, content) = {}
  /\ Fresh(a)
  /\ Begin(r, [op |-> "store", asset |-> a, row |-> NewRow(kind, content)])
  /\ files' = files \cup {a}
  /\ UNCHANGED <<row, uses, approved, leftover, late, stripped>>

(* A write that fails half-way is outside the try block: what it has        *)
(* written stays under its name.                                           *)
WriteFails(kind, content, a) ==
  /\ Same(kind, content) = {}
  /\ Fresh(a)
  /\ files' = files \cup {a} /\ leftover' = leftover \cup {a}
  /\ UNCHANGED <<row, uses, approved, session, stripped, late>>

(* Mutant: the bytes of an upload that lost the race are kept. *)
CleanUpNot(a) == UNCHANGED <<files, leftover>>

(* The file of a failed upload is removed, if the system lets it. *)
CleanUp(a) ==
  \/ files' = files \ {a} /\ leftover' = leftover \ {a}
  \/ UNCHANGED files /\ leftover' = leftover \cup (files \cap {a})

(* uq_planning_media_assets_project_kind_sha256 lets one of two uploads of *)
(* the same bytes commit.                                                  *)
StoreCommit(r) ==
  LET new == session[r].row
      a == session[r].asset
  IN /\ session[r].op = "store"
     /\ Same(new.kind, new.content) = {}
     /\ row' = [row EXCEPT ![a] = new]
     /\ session' = [session EXCEPT ![r] = [op |-> "refresh", asset |-> a]]
     /\ UNCHANGED <<files, uses, approved, leftover, stripped, late>>

(* The row is read again after the commit. *)
RefreshRow(r) ==
  /\ session[r].op = "refresh"
  /\ Exists(session[r].asset)
  /\ End(r)
  /\ UNCHANGED <<row, files, uses, approved, leftover, stripped, late>>

(* That fails when the row is deleted by then, or with the connection; the *)
(* error handler takes the row for rolled back and removes its file.       *)
RefreshFails(r) ==
  LET a == session[r].asset
  IN /\ session[r].op = "refresh"
     /\ CleanUp(a)
     /\ stripped' = IF Exists(a) /\ a \notin files' THEN stripped \cup {a} ELSE stripped
     /\ End(r)
     /\ UNCHANGED <<row, uses, approved, late>>

StoreFails(r) ==
  /\ session[r].op = "store"
  /\ CleanUp(session[r].asset)
  /\ End(r)
  /\ UNCHANGED <<row, uses, approved, late, stripped>>

(* The bytes are there already; their row comes back from the archive. *)
Unarchived(seen) ==
  [seen EXCEPT !.archived = FALSE, !.state = IF @ = "archived" THEN "draft" ELSE @]

UploadAgain(r, kind, content) ==
  \E a \in Same(kind, content) :
    /\ row[a].archived
    /\ Begin(r, [op |-> "change", asset |-> a, seen |-> row[a], new |-> Unarchived(row[a]),
                 users |-> Users(a)])
    /\ UNCHANGED <<row, files, uses, approved, leftover, late, stripped>>

(* register_planning_asset: the row of a generated preview, whose bytes    *)
(* are not in the managed directory; bytes of any kind count as the same.  *)
Register(content, a) ==
  /\ \A kind \in AllKinds : Same(kind, content) = {}
  /\ Fresh(a)
  /\ row' = [row EXCEPT ![a] = NewRow("voice_preview", content)]
  /\ UNCHANGED <<files, uses, approved, session, leftover, late, stripped>>

-----------------------------------------------------------------------------
(* transition_starting_image_approval, archive_asset *)

TransitionRead(r, a, state) ==
  /\ Exists(a) /\ row[a].kind = "starting_image"
  /\ ~row[a].archived /\ row[a].state # "archived"
  /\ state # row[a].state
  /\ state = "approved" => a \in files
  /\ Begin(r, [op |-> "change", asset |-> a, seen |-> row[a],
               new |-> [row[a] EXCEPT !.state = state], users |-> Users(a)])
  /\ UNCHANGED <<row, files, uses, approved, leftover, late, stripped>>

ArchiveRead(r, a) ==
  /\ Exists(a) /\ ~row[a].archived
  /\ Begin(r, [op |-> "change", asset |-> a, seen |-> row[a],
               new |-> [row[a] EXCEPT !.archived = TRUE, !.state = "archived"],
               users |-> Users(a)])
  /\ UNCHANGED <<row, files, uses, approved, leftover, late, stripped>>

(* The unit of work writes the columns that differ from what was read. *)
Flush(seen, value, now) == IF value = seen THEN now ELSE value

ChangeCommit(r) ==
  LET c == session[r]
      now == row[c.asset]
  IN /\ c.op = "change"
     /\ Exists(c.asset)
     /\ row' = [row EXCEPT ![c.asset] =
                  [now EXCEPT !.state = Flush(c.seen.state, c.new.state, @),
                              !.archived = Flush(c.seen.archived, c.new.archived, @)]]
     /\ Reopen(c.users)
     /\ EndChange(r)
     /\ UNCHANGED <<files, uses, leftover, stripped>>

-----------------------------------------------------------------------------
(* delete_asset *)

DeleteRead(r, a, force) ==
  /\ Exists(a)
  /\ row[a].archived \/ (force /\ row[a].state \in {"draft", "archived"})
  /\ Begin(r, [op |-> "delete", asset |-> a, users |-> Users(a)])
  /\ UNCHANGED <<row, files, uses, approved, leftover, late, stripped>>

(* The foreign keys take the references of the plans with the row. *)
DeleteCommit(r) ==
  LET a == session[r].asset
  IN /\ session[r].op = "delete"
     /\ row' = [row EXCEPT ![a] = NoRow]
     /\ uses' = {u \in uses : u[3] # a}
     /\ Reopen(session[r].users)
     /\ session' = [session EXCEPT ![r] = [op |-> "unlink", asset |-> a]]
     /\ late' = {p \in late : Changing(p[2]) \ {r} # {}}
     /\ stripped' = stripped \ {a}
     /\ UNCHANGED <<files, leftover>>

DeleteBytes(r) ==
  /\ session[r].op = "unlink"
  /\ CleanUp(session[r].asset)
  /\ End(r)
  /\ UNCHANGED <<row, uses, approved, late, stripped>>

-----------------------------------------------------------------------------
(* References *)

(* A plan of story s begins to refer to a, or ceases to. *)
Refer(s, w, a) ==
  /\ Cardinality(uses) < MaxUses
  /\ uses' = uses \cup {<<s, w, a>>}
  /\ late' = IF Changing(a) = {} THEN late ELSE late \cup {<<s, a>>}
  /\ Reopen({s})

(* link_character_reference *)
LinkRead(r, s, a) ==
  /\ Exists(a) /\ ~row[a].archived /\ row[a].kind = "character_reference"
  /\ Begin(r, [op |-> "link", asset |-> a, story |-> s])
  /\ UNCHANGED <<row, files, uses, approved, leftover, late, stripped>>

LinkCommit(r) ==
  /\ session[r].op = "link"
  /\ Exists(session[r].asset)
  /\ Refer(session[r].story, "character", session[r].asset)
  /\ End(r)
  /\ UNCHANGED <<row, files, leftover, stripped>>

(* unlink_character_reference; edits of shots and voices drop theirs. *)
Drop(s, w, a) ==
  /\ <<s, w, a>> \in uses
  /\ uses' = uses \ {<<s, w, a>>}
  /\ Reopen({s})
  /\ UNCHANGED <<row, files, session, leftover, late, stripped>>

(* An edit of a shot or a voice, or a stored preview, refers to a. *)
Attach(s, w, a) ==
  /\ w # "character"
  /\ Exists(a)
  /\ Refer(s, w, a)
  /\ UNCHANGED <<row, files, session, leftover, stripped>>

(* The approval of a story, under its lock.  Readiness asks for approved    *)
(* starting images only of shots that require one.                         *)
Approve(s) ==
  /\ approved' = approved \cup {s}
  /\ UNCHANGED <<row, files, uses, session, leftover, late, stripped>>

-----------------------------------------------------------------------------
(* The process dies with all its calls; nothing looks for their files. *)
Die ==
  /\ \E r \in Sessions : session[r] # Idle
  /\ session' = [r \in Sessions |-> Idle]
  /\ leftover' = leftover \cup {a \in files : \E r \in Sessions :
                   session[r].op \in {"store", "unlink"} /\ session[r].asset = a}
  /\ late' = {}
  /\ UNCHANGED <<row, files, uses, approved, stripped>>

Next ==
  \/ \E r \in Sessions :
       \/ \E kind \in Kinds \ {"voice_preview"}, content \in Contents :
            \/ \E a \in Assets : UploadNew(r, kind, content, a)
            \/ UploadAgain(r, kind, content)
       \/ \E a \in Assets :
            \/ \E state \in Targets : TransitionRead(r, a, state)
            \/ ArchiveRead(r, a)
            \/ \E force \in BOOLEAN : DeleteRead(r, a, force)
            \/ \E s \in Stories : LinkRead(r, s, a)
       \/ StoreCommit(r) \/ StoreFails(r) \/ RefreshRow(r) \/ RefreshFails(r)
       \/ ChangeCommit(r)
       \/ DeleteCommit(r) \/ DeleteBytes(r) \/ LinkCommit(r) \/ Abort(r)
  \/ \E content \in Contents, a \in Assets :
       \/ \E kind \in Kinds \ {"voice_preview"} : WriteFails(kind, content, a)
       \/ "voice_preview" \in Kinds /\ Register(content, a)
  \/ \E s \in Stories : Approve(s) \/ \E w \in Ways, a \in Assets : Attach(s, w, a) \/ Drop(s, w, a)
  \/ Die

Spec == Init /\ [][Next]_vars

-----------------------------------------------------------------------------
(* The bytes of an uploaded asset are there as long as its row is, whatever *)
(* uploads and deletions of the same bytes run side by side, fail or die.   *)
(* The one way to lose them is the error handler of the upload itself, when *)
(* reading the row fails after it was committed.                            *)
RowHasBytes ==
  \A a \in Assets : Exists(a) /\ row[a].kind # "voice_preview" => a \in files \cup stripped

(* A file without a row belongs to a call under way, or a death, a write    *)
(* that failed half-way or a failed unlink left it behind: no race of       *)
(* uploads or deletions leaks bytes.                                        *)
NoLeakedBytes ==
  \A a \in files \ leftover :
    Exists(a) \/ \E r \in Sessions : session[r].op \in {"store", "unlink"} /\ session[r].asset = a

(* Rows and files match, but for those two sets of exceptions.              *)
FilesMatchRows == TypeOK /\ RowHasBytes /\ NoLeakedBytes

(* What the plan of story s says of its assets. *)
Seen(s) == {<<u[2], u[3], row[u[3]]>> : u \in {v \in uses : v[1] = s}}

(* No asset changes under an approved plan, unless the plan took the asset *)
(* up after the change had looked for its users.                           *)
ApprovedIsUntouched ==
  [][\A s \in approved : s \in approved' /\ (\A a \in Assets : <<s, a>> \notin late)
                           => Seen(s)' = Seen(s)]_vars
=============================================================================
