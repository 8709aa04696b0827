-------------------------------- MODULE KasvavaJoukko --------------------------------
(***************************************************************************)
(* A growing set of the applicant's form: rows that appear as the last one *)
(* is filled, are removed, and change their ids when the first is removed. *)
(* soresu-form/web/form: FormBranchGrower, FormBranchEditableFieldGrower,  *)
(* FormRules, InputValueStorage and the transitions that call them.        *)
(*                                                                         *)
(* A row has a text and a file; the file is kept by the server under the   *)
(* id of its field and its name is an answer.  Requests about files are    *)
(* answered late.  The id of a row is its number.                          *)
(***************************************************************************)
EXTENDS Naturals, FiniteSets, Sequences, SequencesExt

CONSTANTS MaxRow,       \* the largest number of a row
          MaxRowActs    \* what the applicant does

ASSUME RowsAssumption == MaxRow \in Nat \ {0, 1} /\ MaxRowActs \in Nat

VARIABLES
  content,      \* the rows of the form
  answers,      \* answers of rows that have any
  attachments,  \* the files as the page knows them, by row
  files,        \* server: the open file of each row
  everFile,     \* server: the rows that ever had a file
  fileCalls,    \* requests about files under way
  rowActs,      \* how much of the bound is used
  fileCause     \* ghost: what may part a file from its name

rowVars == <<content, answers, attachments, files, everFile, fileCalls, rowActs, fileCause>>

Ids == 1..MaxRow
NoFile == 0
Empty == [text |-> 0, file |-> NoFile]
IsEmpty(a) == a = Empty
Last1 == Len(content)

--------------------------------------------------------------------------------
(* The rows of a form *)

Field(id, on, required) == [id |-> id, on |-> on, required |-> required]

\* createNewChild: the id after the last one; a place-holder is not required.
NewChild(rows, on) == Append(rows, Field(Last(rows).id + 1, on, FALSE))

InOrder(ids) ==
  CHOOSE s \in [1..Cardinality(ids) -> ids] : \A i, j \in 1..Cardinality(ids) : i < j => s[i] < s[j]

\* addFormFieldsForGrowingFieldsInInitialRender: a row for each answered one, all of them
\* required as the prototype is, an empty one after them, and one that is disabled.
InitialRender(ans) ==
  LET answered == InOrder(DOMAIN ans)
      rows == IF DOMAIN ans = {} THEN <<Field(1, TRUE, TRUE)>>
              ELSE [i \in DOMAIN answered |-> Field(answered[i], TRUE, TRUE)]
      filled == Len(rows) > 1 \/ (rows[1].id \in DOMAIN ans /\ ~IsEmpty(ans[rows[1].id]))
  IN NewChild(IF filled THEN NewChild(rows, TRUE) ELSE rows, FALSE)

\* expandGrowingFieldSetIfNeeded: the last enabled row has been edited.
Expanded(rows, i) ==
  IF i # Len(rows) - 1 THEN rows
  ELSE NewChild([rows EXCEPT ![i].required = TRUE, ![i + 1].on = TRUE], FALSE)

AnswerOf(ans, id) == IF id \in DOMAIN ans THEN ans[id] ELSE Empty
\* writeValue: the other fields of the row are validated, and written, with it.
Written(ans, id, a) == [k \in DOMAIN ans \cup {id} |-> IF k = id THEN a ELSE ans[k]]
Without(ans, id) == [k \in DOMAIN ans \ {id} |-> ans[k]]

\* Mutant: its answers go to a row 0.
MovedAnswersToZero(ans, old) == Written(Without(ans, old), 0, AnswerOf(ans, old))
\* ensureFirstChildIsRequired: the row that is now first takes the id of the prototype, and
\* its answers go with it.
EnsureFirstChild(rows) == [rows EXCEPT ![1] = Field(1, @.on, TRUE)]
MovedAnswers(ans, old) == Written(Without(ans, old), 1, AnswerOf(ans, old))

RoomToGrow == Last(content).id < MaxRow
CanActOnRow == rowActs < MaxRowActs
ActOnRow == rowActs' = rowActs + 1

--------------------------------------------------------------------------------
(* The applicant *)

\* onUpdateField
EditRow(i) ==
  \E text \in {0, 1} :
    LET id == content[i].id
        old == AnswerOf(answers, id) IN
    /\ CanActOnRow /\ RoomToGrow /\ content[i].on /\ text # old.text
    /\ answers' = Written(answers, id, [old EXCEPT !.text = text])
    /\ content' = Expanded(content, i)
    /\ ActOnRow /\ UNCHANGED <<attachments, files, everFile, fileCalls, fileCause>>

FileCall(kind, id, file) ==
  [n |-> CHOOSE n \in 1..(Cardinality(fileCalls) + 1) : \A c \in fileCalls : c.n # n,
   kind |-> kind, id |-> id, file |-> file, at |-> "sent"]
Meets(id) == \E c \in fileCalls : c.id = id
BlameFile(why) == fileCause' = fileCause \cup why

UploadFile(i) ==
  LET id == content[i].id IN
  /\ CanActOnRow /\ RoomToGrow /\ content[i].on /\ attachments[id] = NoFile
  /\ fileCalls' = fileCalls \cup {FileCall("put", id, rowActs + 1)}
  /\ BlameFile(IF Meets(id) THEN {"calls_met"} ELSE {})
  /\ ActOnRow /\ UNCHANGED <<content, answers, attachments, files, everFile>>

DeleteFile(i) ==
  LET id == content[i].id IN
  /\ CanActOnRow /\ content[i].on /\ attachments[id] # NoFile
  /\ fileCalls' = fileCalls \cup {FileCall("delete", id, NoFile)}
  /\ BlameFile(IF Meets(id) THEN {"calls_met"} ELSE {})
  /\ ActOnRow /\ UNCHANGED <<content, answers, attachments, files, everFile>>

\* onRemoveField: not the last enabled row.  Whatever file its field has or may have had is
\* asked to be deleted, by the id the row has now.
RemoveRow(i) ==
  LET id == content[i].id
      rest == RemoveAt(content, i)
      left == Without(answers, id)
      old == rest[1].id
  IN
  /\ CanActOnRow /\ content[i].on /\ i # Last1 - 1
  /\ content' = EnsureFirstChild(rest)
  /\ answers' = MovedAnswers(left, old)
  /\ fileCalls' = fileCalls \cup {FileCall("delete", id, NoFile)}
  /\ BlameFile((IF Meets(id) THEN {"calls_met"} ELSE {})
       \cup (IF old # 1 /\ (AnswerOf(left, old).file # NoFile \/ Meets(old)) THEN {"file_moved"}
             ELSE {}))
  /\ ActOnRow /\ UNCHANGED <<attachments, files, everFile>>

\* The saved form is opened again.
Reload ==
  /\ CanActOnRow /\ fileCalls = {}
  /\ content' = InitialRender(answers)
  /\ attachments' = files
  /\ ActOnRow /\ UNCHANGED <<answers, files, everFile, fileCalls, fileCause>>

--------------------------------------------------------------------------------
(* The server and its answers *)

\* Found when the row ever had a file; otherwise the page is not told.
StoreFile(c) ==
  /\ c.at = "sent"
  /\ IF c.kind = "delete" /\ c.id \notin everFile
     THEN fileCalls' = fileCalls \ {c} /\ UNCHANGED <<files, everFile>>
     ELSE /\ files' = [files EXCEPT ![c.id] = c.file]
          /\ everFile' = everFile \cup {c.id}
          /\ fileCalls' = (fileCalls \ {c}) \cup {[c EXCEPT !.at = "answered"]}
  /\ UNCHANGED <<content, answers, attachments, rowActs, fileCause>>

\* onAttachmentUploadCompleted, onAttachmentRemovalCompleted: the field that has that id by
\* now is given the name of the file, or none.
FileAnswered(c) ==
  /\ c.at = "answered" /\ RoomToGrow
  /\ fileCalls' = fileCalls \ {c}
  /\ attachments' = [attachments EXCEPT ![c.id] = c.file]
  /\ LET here == {i \in DOMAIN content : content[i].id = c.id}
     IN IF here = {} THEN UNCHANGED <<content, answers>>
        ELSE \E i \in here :
               /\ answers' = Written(answers, c.id, [AnswerOf(answers, c.id) EXCEPT !.file = c.file])
               /\ content' = Expanded(content, i)
  /\ UNCHANGED <<files, everFile, rowActs, fileCause>>

FileFailed(c) ==
  /\ c.at \in {"sent", "answered"}
  /\ fileCalls' = fileCalls \ {c}
  /\ BlameFile({"failed"})
  /\ UNCHANGED <<content, answers, attachments, files, everFile, rowActs>>

--------------------------------------------------------------------------------
RowsInit ==
  /\ answers = <<>>
  /\ content = InitialRender(answers)
  /\ attachments = [id \in Ids |-> NoFile]
  /\ files = attachments /\ everFile = {}
  /\ fileCalls = {}
  /\ rowActs = 0
  /\ fileCause = {}

RowsNext ==
  \/ \E i \in DOMAIN content : EditRow(i) \/ UploadFile(i) \/ DeleteFile(i) \/ RemoveRow(i)
  \/ Reload
  \/ \E c \in fileCalls : StoreFile(c) \/ FileAnswered(c) \/ FileFailed(c)

RowsSpec == RowsInit /\ [][RowsNext]_rowVars

--------------------------------------------------------------------------------
RowsTypeOK ==
  /\ \A i \in DOMAIN content : content[i] \in [id: Ids, on: BOOLEAN, required: BOOLEAN]
  /\ DOMAIN answers \subseteq Ids
  /\ attachments \in [Ids -> Nat] /\ files \in [Ids -> Nat]

\* However rows are filled, removed and renamed, and whenever files arrive: the rows have
\* ascending ids, of which the first is the prototype's; exactly the last is closed; all
\* open ones but an empty last one are required; and every answer is in an open row, so
\* that opening the form again shows the same answered rows.
RowsHoldTheAnswers ==
  /\ content[1].id = 1
  /\ \A i \in 1..(Last1 - 1) : content[i].id < content[i + 1].id /\ content[i].on
  /\ ~content[Last1].on
  /\ \A i \in 1..(Last1 - 1) : content[i].required \/ i = Last1 - 1
  /\ \A id \in DOMAIN answers : \E i \in 1..(Last1 - 1) : content[i].id = id /\ content[i].required

\* When no request about files is under way, each row names the file that the server keeps
\* for it, unless requests about one row met, one failed, or a row with a file was renamed.
RowsNameTheirFiles ==
  fileCalls = {} /\ fileCause = {} =>
    \A i \in 1..(Last1 - 1) :
      LET id == content[i].id IN
      AnswerOf(answers, id).file = files[id] /\ attachments[id] = files[id]

\* Rows show the answers, and the files, that are stored for them.
RowsAgree == RowsHoldTheAnswers /\ RowsNameTheirFiles

================================================================================
