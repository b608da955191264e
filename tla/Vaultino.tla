------------------------------- MODULE Vaultino -------------------------------
(***************************************************************************)
(* `vpd vaultino`: the commands create, decrypt, edit and get as processes *)
(* that share one vault file, the plain files and the temporary directory  *)
(* (utils/vaultino/vaultino.go and cmd/vaultino).                          *)
(*                                                                         *)
(* Nothing is locked.  A file is rewritten by os.WriteFile: it is first    *)
(* truncated, then written from its start, so a reader in between sees a   *)
(* stump, a process that is killed leaves one, and of two writers that     *)
(* overlap the longer one's tail may stay behind the shorter one's text.   *)
(* The cipher is authenticated: only a whole vault decrypts, and only with *)
(* its own password.                                                       *)
(***************************************************************************)
EXTENDS Naturals

CONSTANTS Process,     \* the processes that run a command at a time
          Password,
          Text,        \* [format, value]: the value its one key has
          Cut,         \* the text of a plain file that was not written whole
          Type,        \* file extensions, which become the vault's type
          Supported,   \* those extractValue knows
          MaxCommands, \* bound of the model: commands begun in a behaviour
          None

ASSUME TextAssumption == /\ Cut \in Text
                         /\ \A t \in Text : DOMAIN t = {"format", "value"}
ASSUME TypeAssumption == Supported \subseteq Type /\ None \notin Type
ASSUME NoneAssumption == None \notin [type : Type, key : Password, text : Text]
ASSUME BoundAssumption == MaxCommands \in Nat

Command == {"create", "edit", "change", "decrypt", "get"}

VARIABLES
  vault,  \* the vault file
  plain,  \* the plain file of each type, source of create and target of decrypt
  tmp,    \* each process's temporary file
  pc, op, \* where a process is, and the command it runs
  base,   \* what it read: a vault, or the header a create will write
  key,    \* the password it was given last
  text,   \* the plain text it holds
  answer, \* what get printed
  begun,  \* commands begun
  stored, \* the vaults that were ever stored whole (history)
  hist    \* of a command that has run alone so far: the vault when it began,
          \* and the one its user has asked for (history)

local == <<base, key, text>>
files == <<vault, plain, tmp>>
vars == <<files, pc, op, local, answer, begun, stored, hist>>

-----------------------------------------------------------------------------
(* Contents of the vault file *)

Version == [type : Type, key : Password, text : Text]
Stump == [type : Type \union {None}]     \* its header may have survived
Truncated == [type |-> None]
Content == Version \union Stump \union {None}   \* None: there is no file

(* Fault: a mode without authentication, any data decrypts to something. *)
DecryptsUnauthenticated(c, pw) == c \in Version

(* deriveKey and aesGCM.Open *)
Decrypts(c, pw) == c \in Version /\ c.key = pw

(* parseHeaderValue(header, "type"), of whatever the file holds *)
HeaderType(c) == IF c = None THEN None ELSE c.type

(* extractValue: YAML is a superset of JSON; otherwise a text read as     *)
(* another format does not have the key.                                  *)
Extract(t, type) ==
  IF type \in Supported /\ (t.format = type \/ (t.format = "json" /\ type = "yaml"))
  THEN t.value ELSE None

(* What os.WriteFile may leave when it does not get to its end *)
Stumps(p) == {vault, Truncated, [type |-> base[p].type]}

-----------------------------------------------------------------------------
Ended == {"idle", "ok", "failed", "killed"}
Running(p) == pc[p] \notin Ended

Init ==
  /\ vault \in Version \union {None}
  /\ plain \in {f \in [Type -> Text \union {None}] :
                   \A ty \in Type : f[ty] # None => f[ty].format = ty}
  /\ tmp = [p \in Process |-> None]
  /\ pc = [p \in Process |-> "idle"] /\ op = [p \in Process |-> "get"]
  /\ base = [p \in Process |-> None] /\ key = base /\ text = base /\ answer = base
  /\ begun = 0
  /\ stored = {vault} \ {None}
  /\ hist = [p \in Process |-> None]

Goto(p, s) == pc' = [pc EXCEPT ![p] = s]

(* The command ends: what it held is gone with the process. *)
End(p, s) ==
  /\ Goto(p, s)
  /\ base' = [base EXCEPT ![p] = None]
  /\ key' = [key EXCEPT ![p] = None]
  /\ text' = [text EXCEPT ![p] = None]
  /\ hist' = [hist EXCEPT ![p] = None]

Asks(p, wanted) ==
  hist' = [hist EXCEPT ![p] = IF @ = None THEN @ ELSE [@ EXCEPT !.due = wanted]]

(* A new process (a killed one's place is not reused: its file may remain); *)
(* without its argument the command ends at once.                           *)
Start(p, o) ==
  /\ pc[p] \in Ended \ {"killed"} /\ begun < MaxCommands
  /\ begun' = begun + 1
  /\ op' = [op EXCEPT ![p] = o]
  /\ answer' = [answer EXCEPT ![p] = None]
  /\ \/ Goto(p, "read")
     \/ Goto(p, "failed")
  /\ hist' = IF pc'[p] = "failed" THEN hist
             ELSE IF \E q \in Process \ {p} : Running(q) THEN [q \in Process |-> None]
             ELSE [hist EXCEPT ![p] = [before |-> vault, due |-> vault]]
  /\ UNCHANGED <<files, local, stored>>

Create(p) == Start(p, "create")
Edit(p) == Start(p, "edit") \/ Start(p, "change")     \* --change-password
Decrypt(p) == Start(p, "decrypt")
Get(p) == Start(p, "get")

(* create: os.ReadFile(file) *)
ReadSource(p) ==
  /\ pc[p] = "read" /\ op[p] = "create"
  /\ \E ty \in Type :
       \/ /\ plain[ty] = None
          /\ End(p, "failed")
       \/ /\ plain[ty] # None
          /\ base' = [base EXCEPT ![p] = [type |-> ty]]
          /\ text' = [text EXCEPT ![p] = plain[ty]]
          /\ Goto(p, "password")
          /\ UNCHANGED <<key, hist>>
  /\ UNCHANGED <<files, op, answer, begun, stored>>

(* readVaultFile, which refuses a file without a whole header line *)
ReadVaultFile(p) ==
  /\ pc[p] = "read" /\ op[p] # "create"
  /\ \/ /\ HeaderType(vault) = None
        /\ End(p, "failed")
     \/ /\ HeaderType(vault) # None
        /\ base' = [base EXCEPT ![p] = vault]
        /\ Goto(p, "password")
        /\ UNCHANGED <<key, text, hist>>
  /\ UNCHANGED <<files, op, answer, begun, stored>>

AfterPassword == [create |-> "encrypt", edit |-> "temp", change |-> "temp",
                  decrypt |-> "open", get |-> "header"]

(* readPassword or getPassword, then encrypt or decrypt *)
EnterPassword(p, pw) ==
  /\ pc[p] = "password"
  /\ \/ /\ op[p] # "create" /\ ~Decrypts(base[p], pw)
        /\ End(p, "failed")
     \/ /\ op[p] = "create" \/ Decrypts(base[p], pw)
        /\ key' = [key EXCEPT ![p] = pw]
        /\ text' = [text EXCEPT ![p] = IF op[p] = "create" THEN @ ELSE base[p].text]
        /\ Goto(p, AfterPassword[op[p]])
        /\ IF op[p] = "create"
           THEN Asks(p, [type |-> base[p].type, key |-> pw, text |-> text[p]])
           ELSE UNCHANGED hist
        /\ UNCHANGED base
  /\ UNCHANGED <<files, op, answer, begun, stored>>

-----------------------------------------------------------------------------
(* edit *)

CreateTemp(p) ==
  /\ pc[p] = "temp"
  /\ tmp' = [tmp EXCEPT ![p] = text[p]]
  /\ Goto(p, "editor")
  /\ UNCHANGED <<vault, plain, op, local, answer, begun, stored, hist>>

(* The user saves: the editor is a program of its own. *)
EditorSaves(p, t) ==
  /\ pc[p] = "editor" /\ t # Cut
  /\ tmp' = [tmp EXCEPT ![p] = t]
  /\ Asks(p, [base[p] EXCEPT !.text = t])
  /\ UNCHANGED <<vault, plain, pc, op, local, answer, begun, stored>>

(* Fault: what is encrypted is what was decrypted, not what was edited. *)
EditorEndsUnread(p) ==
  /\ pc[p] = "editor"
  /\ tmp' = [tmp EXCEPT ![p] = None]
  /\ Goto(p, IF op[p] = "change" THEN "newpassword" ELSE "encrypt")
  /\ UNCHANGED <<vault, plain, op, local, answer, begun, stored, hist>>

(* The editor returns; the file is read back and removed. *)
EditorEnds(p) ==
  /\ pc[p] = "editor"
  /\ text' = [text EXCEPT ![p] = tmp[p]]
  /\ tmp' = [tmp EXCEPT ![p] = None]
  /\ Goto(p, IF op[p] = "change" THEN "newpassword" ELSE "encrypt")
  /\ UNCHANGED <<vault, plain, op, base, key, answer, begun, stored, hist>>

(* Fault: an empty password is used when the new one cannot be read. *)
NewPasswordOrNone(p, pw) ==
  /\ pc[p] = "newpassword"
  /\ key' = [key EXCEPT ![p] = None]
  /\ Goto(p, "encrypt")
  /\ Asks(p, [hist[p].due EXCEPT !.key = pw])
  /\ UNCHANGED <<files, op, base, text, answer, begun, stored>>

NewPassword(p, pw) ==
  /\ pc[p] = "newpassword"
  /\ key' = [key EXCEPT ![p] = pw]
  /\ Goto(p, "encrypt")
  /\ Asks(p, [hist[p].due EXCEPT !.key = pw])
  /\ UNCHANGED <<files, op, base, text, answer, begun, stored>>

(* Fault: an error returns without removing the temporary file. *)
GiveUpKeepingTemp(p) ==
  /\ pc[p] \in {"password", "temp", "editor", "newpassword", "encrypt"}
  /\ End(p, "failed")
  /\ UNCHANGED <<files, op, answer, begun, stored>>

(* An error of the terminal, of the random source, of the temporary file  *)
(* or of the editor ends the command before it has written anything.      *)
GiveUp(p) ==
  /\ pc[p] \in {"password", "temp", "editor", "newpassword", "encrypt"}
  /\ End(p, "failed")
  /\ tmp' = [tmp EXCEPT ![p] = None]
  /\ UNCHANGED <<vault, plain, op, answer, begun, stored>>

-----------------------------------------------------------------------------
(* writeVaultFile *)

TruncateVault(p) ==
  /\ pc[p] = "encrypt"
  /\ vault' = Truncated
  /\ Goto(p, "writing")
  /\ UNCHANGED <<plain, tmp, op, local, answer, begun, stored, hist>>

NewVault(p) == [type |-> base[p].type, key |-> key[p], text |-> text[p]]

(* Over what another process has written since the truncation, the end of *)
(* a longer file stays.                                                   *)
WriteVault(p) ==
  /\ pc[p] = "writing"
  /\ \/ /\ vault' = NewVault(p)
        /\ stored' = stored \union {NewVault(p)}
     \/ /\ vault # Truncated
        /\ vault' = [type |-> base[p].type]
        /\ UNCHANGED stored
  /\ End(p, "ok")
  /\ UNCHANGED <<plain, tmp, op, answer, begun>>

WriteFails(p) ==
  /\ pc[p] = "writing"
  /\ vault' \in Stumps(p)
  /\ End(p, "failed")
  /\ UNCHANGED <<plain, tmp, op, answer, begun, stored>>

-----------------------------------------------------------------------------
(* decrypt and get *)

TruncatePlain(p) ==
  /\ pc[p] = "open"
  /\ plain' = [plain EXCEPT ![base[p].type] = Cut]
  /\ Goto(p, "plain")
  /\ UNCHANGED <<vault, tmp, op, local, answer, begun, stored, hist>>

WritePlain(p) ==
  /\ pc[p] = "plain"
  /\ \/ /\ plain' = [plain EXCEPT ![base[p].type] = text[p]]
        /\ End(p, "ok")
     \/ /\ plain[base[p].type] # Cut
        /\ plain' = [plain EXCEPT ![base[p].type] = Cut]
        /\ End(p, "ok")
     \/ /\ plain' = [plain EXCEPT ![base[p].type] = Cut]
        /\ End(p, "failed")
  /\ UNCHANGED <<vault, tmp, op, answer, begun, stored>>

(* The type is read from the file a second time, after the decryption. *)
ExtractValue(p) ==
  /\ pc[p] = "header"
  /\ LET value == Extract(text[p], HeaderType(vault))
     IN  /\ answer' = [answer EXCEPT ![p] = value]
         /\ End(p, IF value = None THEN "failed" ELSE "ok")
  /\ UNCHANGED <<files, op, begun, stored>>

(* Ctrl-C, a signal or a crash *)
Kill(p) ==
  /\ Running(p)
  /\ IF pc[p] = "writing" THEN vault' \in Stumps(p) ELSE UNCHANGED vault
  /\ IF pc[p] = "plain" THEN plain' = [plain EXCEPT ![base[p].type] = Cut]
                        ELSE UNCHANGED plain
  /\ End(p, "killed")
  /\ UNCHANGED <<tmp, op, answer, begun, stored>>

-----------------------------------------------------------------------------
Step(p) ==
  \/ Create(p) \/ Edit(p) \/ Decrypt(p) \/ Get(p)
  \/ ReadSource(p) \/ ReadVaultFile(p)
  \/ \E pw \in Password : EnterPassword(p, pw) \/ NewPassword(p, pw)
  \/ CreateTemp(p) \/ EditorEnds(p) \/ GiveUp(p)
  \/ \E t \in Text : EditorSaves(p, t)
  \/ TruncateVault(p) \/ WriteVault(p) \/ WriteFails(p)
  \/ TruncatePlain(p) \/ WritePlain(p) \/ ExtractValue(p)
  \/ Kill(p)

Next == \E p \in Process : Step(p)

Spec == Init /\ [][Next]_vars

-----------------------------------------------------------------------------
(* Every variable has its type. *)
TypeOK ==
  /\ vault \in Content
  /\ plain \in [Type -> Text \union {None}]
  /\ tmp \in [Process -> Text \union {None}]
  /\ pc \in [Process -> Ended \union {"read", "password", "temp", "editor", "newpassword",
                                      "encrypt", "writing", "open", "plain", "header"}]
  /\ op \in [Process -> Command]
  /\ base \in [Process -> Content]
  /\ key \in [Process -> Password \union {None}]
  /\ text \in [Process -> Text \union {None}]
  /\ answer \in [Process -> {t.value : t \in Text} \union {None}]
  /\ begun \in 0..MaxCommands
  /\ stored \subseteq Version
  /\ \A p \in Process : hist[p] # None => /\ hist[p].before \in Content
                                          /\ hist[p].due \in Content

(* How a command that had the vault to itself may end *)
EndsAsAsked ==
  \A p \in Process :
    hist[p] # None /\ Running(p) /\ pc'[p] \in Ended =>
      IF pc'[p] = "ok" THEN vault' = hist[p].due
                       ELSE pc[p] = "writing" \/ vault' = hist[p].before

(* A command that had the vault to itself is atomic: when it succeeds the  *)
(* vault is what its user asked for (the text last saved in the editor, the *)
(* type it had, the old password or the new one), and when it ends in any  *)
(* other way the vault is as it was, unless it ended in writeVaultFile,    *)
(* which overwrites the only copy in place.                                *)
AloneIsAtomic == [][EndsAsAsked]_vars

(* The decrypted text that edit puts in the temporary directory is gone    *)
(* once the editor is, on every path out of editVaultInternal; only a      *)
(* process that was killed leaves it.                                      *)
PlainTextRemoved ==
  \A p \in Process : tmp[p] # None => pc[p] \in {"editor", "killed"}

(* What a step may write to a plain file or print *)
OnlyStored ==
  /\ \A ty \in Type : plain'[ty] \in {plain[ty], Cut}
       \union {v.text : v \in {w \in stored : w.type = ty}}
  /\ \A p \in Process : answer'[p] \in {answer[p], None}
       \union {v.text.value : v \in {w \in stored : w.key = key[p]}}

(* Whatever is interleaved, killed or torn, decrypt and get bring out only *)
(* what somebody stored: the plain file of a type gets the text of a vault *)
(* of this type, and get prints a value that a vault with the password it  *)
(* was given had.                                                          *)
NothingInvented == [][OnlyStored]_vars
=============================================================================
