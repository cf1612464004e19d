----------------------------- MODULE GatewayHost -----------------------------
(***************************************************************************)
(* What the commands of an updater do to a gateway: the code and the token *)
(* of its local interface, the agent's checkout, package, environment file *)
(* and running process, and the two kinds of checkpoint.  An operator of   *)
(* this module gives the states a group of commands may leave behind: a    *)
(* group stops at the first command that fails, so besides its whole       *)
(* effect there are those of its beginnings.                               *)
(***************************************************************************)
EXTENDS Naturals, FiniteSets

CONSTANTS
  Jobs,      \* update jobs; a job's tokens carry its name
  Releases,  \* what jobs install
  Old,       \* what the gateway runs before
  Mixed,     \* files of two releases
  None       \* no artifact, no checkpoint, no token

ASSUME HostAssumption ==
  /\ Old \notin Releases /\ Mixed \notin Releases /\ None \notin Releases
  /\ Old # Mixed /\ Old # None /\ Mixed # None
  /\ None \notin Jobs /\ Old \notin Jobs

Code == Releases \cup {Old, Mixed}
Token == Jobs \cup {Old, None}  \* Old: the tokens of before

Hosts ==
  [ui : Code, served : Code \cup {None}, uiToken : Token,
   artifact : Releases \cup {None},
   backup : [code : Code \cup {None}, token : Token],
   checkpoint : [Releases -> Code \cup {None}],
   writeEnv : Token,
   repo : Releases \cup {Old}, package : Releases \cup {Old},
   agent : Releases \cup {Old}, agentWrite : Token,
   agentUp : BOOLEAN]

(* A gateway in service: interface and agent share a write token.          *)
FreshHost ==
  [ui |-> Old, served |-> Old, uiToken |-> Old,
   artifact |-> None, backup |-> [code |-> None, token |-> None],
   checkpoint |-> [r \in Releases |-> None],
   writeEnv |-> Old,
   repo |-> Old, package |-> Old,
   agent |-> Old, agentWrite |-> Old, agentUp |-> TRUE]

(* The commands a checkpoint consists of: the full backup, then the code   *)
(* of the interface under the name of the release that is to come.         *)
FullBackup(h) == [h EXCEPT !.backup = [code |-> h.ui, token |-> h.uiToken]]
CodeCheckpoint(h, r) == [h EXCEPT !.checkpoint[r] = h.ui]

Backup(h, r) == {CodeCheckpoint(FullBackup(h), r)}
BackupBegun(h) == {h, FullBackup(h)}

(* A new upload removes the old file first.                                *)
Upload(h, r) == {[h EXCEPT !.artifact = r]}
UploadBegun(h) == {h, [h EXCEPT !.artifact = None]}
ReuseArtifact(h) == IF h.artifact = None THEN {} ELSE {h}

(* The interface is stopped, unless that is skipped, and its files are     *)
(* replaced one by one; what is served until then is what its process read *)
(* when it was started.                                                    *)
StopUi(h) == [h EXCEPT !.served = None]
Unless(skip, h) == IF skip THEN h ELSE StopUi(h)
ApplyUiUnstopped(h, skip) ==
  IF h.artifact = None THEN {} ELSE {[h EXCEPT !.ui = h.artifact]}
ApplyUi(h, skip) ==
  IF h.artifact = None THEN {}
  ELSE {[Unless(skip, h) EXCEPT !.ui = h.artifact]}
ApplyUiBegun(h, skip) ==
  {h, Unless(skip, h)} \cup
  (IF h.artifact = None THEN {} ELSE {[Unless(skip, h) EXCEPT !.ui = Mixed]})

(* The job's token goes into a file of the interface and then into the     *)
(* environment file of the agent, which keeps its other lines.             *)
WriteUiToken(h, j) == [h EXCEPT !.uiToken = j]
WriteAgentToken(h, j) == [h EXCEPT !.writeEnv = j]
Auth(h, j) == {WriteAgentToken(WriteUiToken(h, j), j)}
AuthBegun(h, j) == {h, WriteUiToken(h, j)} \cup Auth(h, j)

(* systemctl start: nothing happens to an interface that is running.  The  *)
(* checks are that it is active and answers with its login page, which     *)
(* files of two releases may do.                                           *)
StartUi(h) == [h EXCEPT !.served = IF @ = None THEN h.ui ELSE @]
RestartUi(h) == {StartUi(h)}
RestartUiBegun(h) == {h, StartUi(h)}

(* The package is installed in place: what runs after the next restart is  *)
(* what is checked out then.                                               *)
Checkout(h, r) == [h EXCEPT !.repo = r]
Repo(h, r) == {Checkout(h, r)}
RepoBegun(h, r) == {h, Checkout(h, r)}

(* The environment file is replaced by one that has the cloud's gateway    *)
(* token alone; earlier gateway tokens stay valid, so they are left out.   *)
Config(h) == {[h EXCEPT !.writeEnv = None]}
ConfigBegun(h) == {h} \cup Config(h)

(* The commit is checked out once more, unless it is the older updater.    *)
Install(h, r) ==
  {[h EXCEPT !.repo = r, !.package = r]}
InstallWithoutCheckout(h) == {[h EXCEPT !.package = h.repo]}
InstallBegun(h, r) == {h, Checkout(h, r)} \cup Install(h, r)
InstallBegunWithoutCheckout(h) == {h} \cup InstallWithoutCheckout(h)

(* systemctl restart: the process reads its code and its environment anew. *)
RestartAgent(h) ==
  [h EXCEPT !.agent = h.repo, !.agentWrite = h.writeEnv, !.agentUp = TRUE]
(* systemctl start would leave a running agent with what it has read.      *)
ServiceByStart(h) == {IF h.agentUp THEN h ELSE RestartAgent(h)}

Service(h) == {RestartAgent(h)}
ServiceBegun(h) ==
  {h, RestartAgent(h), [RestartAgent(h) EXCEPT !.agentUp = FALSE]}

(* The final checks of the newer updater change nothing, and want services *)
(* that run, and the release as the commit checked out and as the package. *)
Verified(h, r) ==
  IF h.served # None /\ h.agentUp /\ h.repo = r /\ h.package = r
  THEN {h} ELSE {}

(* The full backup holds the file with the interface's token.              *)
RestoredBackup(h) ==
  [h EXCEPT !.ui = h.backup.code, !.uiToken = h.backup.token]
RestoreBackup(h) ==
  IF h.backup.code = None THEN {}
  ELSE {StartUi(StopUi(RestoredBackup(h)))}
RestoreBackupBegun(h) ==
  {h} \cup (IF h.backup.code = None THEN {}
            ELSE {StopUi(h), StopUi(RestoredBackup(h))})

RestoreCode(h, r) ==
  IF h.checkpoint[r] = None THEN {}
  ELSE {[h EXCEPT !.ui = h.checkpoint[r], !.served = h.checkpoint[r]]}
RestoreCodeBegun(h, r) ==
  {h} \cup (IF h.checkpoint[r] = None THEN {}
            ELSE {StopUi(h), [StopUi(h) EXCEPT !.ui = Mixed]})

DisableAgent(h) == {[h EXCEPT !.agentUp = FALSE]}
=============================================================================
