---------------------------- MODULE VaultinoProofs -----------------------------
(* Proofs about Vaultino for any number of processes, commands, passwords,  *)
(* texts and types.                                                         *)
EXTENDS Vaultino, TLAPS

-----------------------------------------------------------------------------
(* Layer 1: the types, and what a process holds where *)

Busy == {"password", "temp", "editor", "newpassword", "encrypt", "writing",
         "open", "plain", "header"}
Decided == Busy \ {"password"}

Shape ==
  /\ vault \in Content
  /\ plain \in [Type -> Text \union {None}]
  /\ tmp \in [Process -> Text \union {None}]
  /\ pc \in [Process -> Ended \union {"read"} \union Busy]
  /\ op \in [Process -> Command]
  /\ base \in [Process -> Content]
  /\ key \in [Process -> Password \union {None}]
  /\ text \in [Process -> Text \union {None}]
  /\ answer \in [Process -> {t.value : t \in Text} \union {None}]
  /\ begun \in 0..MaxCommands
  /\ stored \subseteq Version

Holds(p) ==
  /\ pc[p] \in Busy => base[p].type \in Type
  /\ pc[p] \in {"temp", "editor"} => base[p] \in Version
  /\ pc[p] \in Decided => key[p] \in Password
  /\ pc[p] \in Decided \ {"editor"} \/ (pc[p] = "password" /\ op[p] = "create")
       => text[p] \in Text
  /\ pc[p] = "editor" => tmp[p] \in Text

Typed == Shape /\ \A p \in Process : Holds(p)

(* A step of one process leaves what another one holds. *)
LEMMA OthersKeep ==
  ASSUME Shape, NEW p \in Process, Step(p), NEW q \in Process, q # p
  PROVE  /\ pc'[q] = pc[q] /\ op'[q] = op[q] /\ base'[q] = base[q]
         /\ key'[q] = key[q] /\ text'[q] = text[q] /\ tmp'[q] = tmp[q]
<1> USE DEF Shape, local, files, Goto, End
<1>1. CASE \E o \in Command : Start(p, o)
  BY <1>1 DEF Start
<1>2. CASE ReadSource(p) \/ ReadVaultFile(p)
  BY <1>2 DEF ReadSource, ReadVaultFile
<1>3. CASE \E pw \in Password : EnterPassword(p, pw) \/ NewPassword(p, pw)
  BY <1>3 DEF EnterPassword, NewPassword
<1>4. CASE CreateTemp(p) \/ EditorEnds(p) \/ GiveUp(p)
  BY <1>4 DEF CreateTemp, EditorEnds, GiveUp
<1>5. CASE \E t \in Text : EditorSaves(p, t)
  BY <1>5 DEF EditorSaves
<1>6. CASE TruncateVault(p) \/ WriteVault(p) \/ WriteFails(p)
  BY <1>6 DEF TruncateVault, WriteVault, WriteFails
<1>7. CASE TruncatePlain(p) \/ WritePlain(p) \/ ExtractValue(p)
  BY <1>7 DEF TruncatePlain, WritePlain, ExtractValue
<1>8. CASE Kill(p)
  BY <1>8 DEF Kill
<1> QED
  BY <1>1, <1>2, <1>3, <1>4, <1>5, <1>6, <1>7, <1>8
     DEF Step, Create, Edit, Decrypt, Get, Command
(* What a process that has ended holds does not matter. *)
LEMMA EndHolds ==
  ASSUME Shape, NEW p \in Process, NEW s \in Ended, End(p, s)
  PROVE  /\ pc' \in [Process -> Ended \union {"read"} \union Busy]
         /\ base' \in [Process -> Content]
         /\ key' \in [Process -> Password \union {None}]
         /\ text' \in [Process -> Text \union {None}]
         /\ Holds(p)'
BY DEF Shape, End, Goto, Content, Ended, Busy, Decided, Holds

LEMMA TypedInit == Init => Typed
BY BoundAssumption DEF Init, Typed, Shape, Holds, Content, Ended, Busy, Decided, Command

LEMMA TypedStep ==
  ASSUME Typed, NEW p \in Process, Step(p)
  PROVE  Shape' /\ Holds(p)'
<1> USE DEF Shape, Typed, local, files
<1>1. CASE \E o \in Command : Start(p, o)
  <2>1. PICK o \in Command : Start(p, o)
    BY <1>1
  <2>2. begun' \in 0..MaxCommands
    BY <2>1, BoundAssumption DEF Start
  <2>3. pc' \in [Process -> Ended \union {"read"} \union Busy] /\ pc'[p] \in {"read", "failed"}
    BY <2>1 DEF Start, Goto, Ended
  <2>4. Holds(p)'
    BY <2>3 DEF Holds, Busy, Decided
  <2> QED
    BY <2>1, <2>2, <2>3, <2>4 DEF Start
<1>2. CASE ReadSource(p)
  <2>1. PICK ty \in Type :
          \/ /\ plain[ty] = None
             /\ End(p, "failed")
          \/ /\ plain[ty] # None
             /\ base' = [base EXCEPT ![p] = [type |-> ty]]
             /\ text' = [text EXCEPT ![p] = plain[ty]]
             /\ Goto(p, "password")
             /\ UNCHANGED <<key, hist>>
    BY <1>2 DEF ReadSource
  <2>2. CASE End(p, "failed")
    BY <1>2, <2>2, EndHolds DEF ReadSource, Ended
  <2>3. CASE plain[ty] # None /\ base' = [base EXCEPT ![p] = [type |-> ty]]
    <3>1. [type |-> ty] \in Content
      BY DEF Content, Stump
    <3> QED
      BY <1>2, <2>1, <2>3, <3>1 DEF ReadSource, Goto, Ended, Busy, Decided, Holds
  <2> QED
    BY <2>1, <2>2, <2>3
<1>3. CASE ReadVaultFile(p)
  <2>1. CASE End(p, "failed")
    BY <1>3, <2>1, EndHolds DEF ReadVaultFile, Ended
  <2>2. CASE ~End(p, "failed")
    <3>1. HeaderType(vault) # None
      BY <1>3, <2>2 DEF ReadVaultFile
    <3>2. vault.type \in Type
      BY <3>1 DEF HeaderType, Content, Stump, Version
    <3> QED
      BY <1>3, <2>2, <3>2 DEF ReadVaultFile, Goto, Ended, Busy, Decided, Holds
  <2> QED
    BY <2>1, <2>2
<1>4. CASE \E pw \in Password : EnterPassword(p, pw)
  <2>1. PICK pw \in Password : EnterPassword(p, pw)
    BY <1>4
  <2>2. CASE End(p, "failed")
    BY <2>1, <2>2, EndHolds DEF EnterPassword, Ended
  <2>3. CASE ~End(p, "failed") /\ op[p] = "create"
    BY <2>1, <2>3 DEF EnterPassword, Goto, AfterPassword, Ended, Busy, Decided, Holds
  <2>4. CASE ~End(p, "failed") /\ op[p] # "create"
    <3>1. base[p] \in Version /\ base[p].text \in Text
      BY <2>1, <2>4 DEF EnterPassword, Decrypts, Version
    <3> QED
      BY <2>1, <2>4, <3>1
         DEF EnterPassword, Goto, AfterPassword, Command, Ended, Busy, Decided, Holds
  <2> QED
    BY <2>2, <2>3, <2>4
<1>5. CASE CreateTemp(p) \/ EditorEnds(p) \/ TruncateVault(p) \/ TruncatePlain(p)
  <2>1. Truncated \in Content /\ Cut \in Text
    BY TextAssumption DEF Truncated, Content, Stump
  <2> QED
    BY <1>5, <2>1 DEF CreateTemp, EditorEnds, TruncateVault, TruncatePlain, Goto, Ended,
                      Busy, Decided, Holds
<1>6. CASE \E t \in Text : EditorSaves(p, t)
  BY <1>6 DEF EditorSaves, Ended, Busy, Decided, Holds
<1>7. CASE \E pw \in Password : NewPassword(p, pw)
  BY <1>7 DEF NewPassword, Goto, Ended, Busy, Decided, Holds
<1>8. CASE GiveUp(p) \/ ExtractValue(p)
  <2>1. PICK s \in Ended : End(p, s)
    BY <1>8 DEF GiveUp, ExtractValue, Ended
  <2>2. CASE GiveUp(p)
    BY <2>1, <2>2, EndHolds DEF GiveUp
  <2>3. CASE ExtractValue(p)
    <3>1. text[p] \in Text
      BY <2>3 DEF ExtractValue, Holds, Decided, Busy
    <3>2. Extract(text[p], HeaderType(vault)) \in {t.value : t \in Text} \union {None}
      BY <3>1 DEF Extract
    <3>3. answer' \in [Process -> {t.value : t \in Text} \union {None}]
      BY <2>3, <3>2 DEF ExtractValue
    <3> QED
      BY <2>1, <2>3, <3>3, EndHolds DEF ExtractValue
  <2> QED
    BY <1>8, <2>2, <2>3
<1>9. CASE WriteVault(p)
  <2>1. NewVault(p) \in Version
    BY <1>9 DEF WriteVault, NewVault, Version, Holds, Busy, Decided
  <2>2. vault' \in Content /\ stored' \subseteq Version
    BY <1>9, <2>1 DEF WriteVault, Content, Stump, Holds, Busy
  <2>3. End(p, "ok") /\ "ok" \in Ended
    BY <1>9 DEF WriteVault, Ended
  <2> QED
    BY <1>9, <2>2, <2>3, EndHolds DEF WriteVault
<1>10. CASE WriteFails(p) \/ WritePlain(p) \/ Kill(p)
  <2>1. PICK s \in Ended : End(p, s)
    BY <1>10 DEF WriteFails, WritePlain, Kill, Ended
  <2>2. pc[p] = "writing" => Stumps(p) \subseteq Content
    BY DEF Stumps, Truncated, Content, Stump, Holds, Busy
  <2>3. vault' \in Content
    BY <1>10, <2>2 DEF WriteFails, WritePlain, Kill
  <2>4. plain' \in [Type -> Text \union {None}]
    BY <1>10, TextAssumption DEF WriteFails, WritePlain, Kill
  <2> QED
    BY <1>10, <2>1, <2>3, <2>4, EndHolds DEF WriteFails, WritePlain, Kill
<1> QED
  BY <1>1, <1>2, <1>3, <1>4, <1>5, <1>6, <1>7, <1>8, <1>9, <1>10
     DEF Step, Create, Edit, Decrypt, Get, Command

LEMMA TypedNext == Typed /\ [Next]_vars => Typed'
<1> SUFFICES ASSUME Typed, [Next]_vars PROVE Typed'
  OBVIOUS
<1>1. CASE UNCHANGED vars
  BY <1>1 DEF vars, files, local, Typed, Shape, Holds
<1>2. ASSUME NEW p \in Process, Step(p) PROVE Typed'
  <2>1. ASSUME NEW q \in Process, q # p PROVE Holds(q)'
    <3>1. Holds(q)
      BY DEF Typed
    <3> QED
      BY <1>2, <2>1, <3>1, OthersKeep DEF Typed, Holds
  <2> QED
    BY <1>2, <2>1, TypedStep DEF Typed
<1> QED
  BY <1>1, <1>2 DEF Next

LEMMA AlwaysTyped == Spec => []Typed
BY TypedInit, TypedNext, PTL DEF Spec
-----------------------------------------------------------------------------
(* The temporary file *)

LEMMA TempStep ==
  ASSUME Typed, PlainTextRemoved, NEW p \in Process, Step(p)
  PROVE  tmp'[p] # None => pc'[p] \in {"editor", "killed"}
<1> USE DEF Shape, Typed, local, files, Goto, End, PlainTextRemoved, Ended
<1>1. CASE \E o \in Command : Start(p, o)
  BY <1>1 DEF Start
<1>2. CASE ReadSource(p) \/ ReadVaultFile(p)
  BY <1>2 DEF ReadSource, ReadVaultFile
<1>3. CASE \E pw \in Password : EnterPassword(p, pw) \/ NewPassword(p, pw)
  BY <1>3 DEF EnterPassword, NewPassword
<1>4. CASE CreateTemp(p) \/ EditorEnds(p) \/ GiveUp(p)
  BY <1>4 DEF CreateTemp, EditorEnds, GiveUp
<1>5. CASE \E t \in Text : EditorSaves(p, t)
  BY <1>5 DEF EditorSaves
<1>6. CASE TruncateVault(p) \/ WriteVault(p) \/ WriteFails(p)
  BY <1>6 DEF TruncateVault, WriteVault, WriteFails
<1>7. CASE TruncatePlain(p) \/ WritePlain(p) \/ ExtractValue(p)
  BY <1>7 DEF TruncatePlain, WritePlain, ExtractValue
<1>8. CASE Kill(p)
  BY <1>8 DEF Kill
<1> QED
  BY <1>1, <1>2, <1>3, <1>4, <1>5, <1>6, <1>7, <1>8
     DEF Step, Create, Edit, Decrypt, Get, Command

(* The decrypted text in the temporary directory is gone once the editor is, *)
(* on every path out of editVaultInternal but a kill, for any number of      *)
(* processes.                                                                *)
THEOREM TempRemoved == Spec => []PlainTextRemoved
<1>1. Init => PlainTextRemoved
  BY DEF Init, PlainTextRemoved
<1>2. Typed /\ PlainTextRemoved /\ [Next]_vars => PlainTextRemoved'
  <2> SUFFICES ASSUME Typed, PlainTextRemoved, [Next]_vars PROVE PlainTextRemoved'
    OBVIOUS
  <2>1. CASE UNCHANGED vars
    BY <2>1 DEF vars, files, PlainTextRemoved
  <2>2. ASSUME NEW p \in Process, Step(p) PROVE PlainTextRemoved'
    BY <2>2, OthersKeep, TempStep DEF PlainTextRemoved, Typed
  <2> QED
    BY <2>1, <2>2 DEF Next
<1> QED
  BY <1>1, <1>2, AlwaysTyped, PTL DEF Spec

-----------------------------------------------------------------------------
(* Layer 2: a command that has run alone *)

History == [before : Content, due : Content] \union {None}

(* What a command still has to do before the vault is what it owes *)
Owes(p) ==
  /\ pc[p] # "writing" => vault = hist[p].before
  /\ pc[p] = "writing" => vault = Truncated
  /\ pc[p] \in {"read", "password", "open", "plain", "header"}
       => hist[p].due = hist[p].before
  /\ pc[p] = "password" /\ op[p] # "create" => base[p] = hist[p].before
  /\ pc[p] \in {"temp", "editor"} => key[p] = base[p].key
  /\ pc[p] \in {"temp", "newpassword", "encrypt", "writing"}
       => hist[p].due = [type |-> base[p].type, key |-> key[p], text |-> text[p]]
  /\ pc[p] = "editor"
       => hist[p].due = [type |-> base[p].type, key |-> key[p], text |-> tmp[p]]

Alone(p) ==
  hist[p] # None => /\ pc[p] \in {"read"} \union Busy
                    /\ \A q \in Process \ {p} : ~Running(q)
                    /\ Owes(p)

Undisturbed == hist \in [Process -> History] /\ \A p \in Process : Alone(p)

LEMMA UndisturbedInit == Init => Undisturbed
BY DEF Init, Undisturbed, History, Alone

(* A command that runs on while another one has run alone so far: it has not. *)
LEMMA MovedAlone ==
  ASSUME Typed, Undisturbed, NEW p \in Process, Running(p), NEW q \in Process, q # p
  PROVE  hist[q] = None
BY DEF Undisturbed, Alone

LEMMA EndAlone ==
  ASSUME Typed, Undisturbed, NEW p \in Process, NEW s, Running(p), End(p, s)
  PROVE  Undisturbed'
<1>1. hist' \in [Process -> History]
  BY DEF End, Undisturbed, History
<1>2. \A q \in Process : hist'[q] = None
  BY MovedAlone DEF End, Undisturbed
<1> QED
  BY <1>1, <1>2 DEF Undisturbed, Alone

(* A step after which the command runs on and owes what it owed. *)
LEMMA GoesOn ==
  ASSUME Typed, Undisturbed, NEW p \in Process, Running(p), Typed', Step(p),
         pc'[p] \in {"read"} \union Busy,
         hist' \in [Process -> History],
         \A q \in Process \ {p} : hist'[q] = hist[q],
         hist'[p] # None => hist[p] # None /\ Owes(p)'
  PROVE  Undisturbed'
<1>1. \A q \in Process \ {p} : hist'[q] = None
  BY MovedAlone
<1>2. ASSUME hist'[p] # None, NEW q \in Process \ {p} PROVE ~Running(q)'
  <2>1. ~Running(q)
    BY <1>2 DEF Undisturbed, Alone
  <2> QED
    BY <2>1, OthersKeep DEF Running, Typed
<1>3. Alone(p)'
  BY <1>2 DEF Alone
<1> QED
  BY <1>1, <1>3 DEF Undisturbed, Alone

LEMMA StartAlone ==
  ASSUME Typed, Undisturbed, NEW p \in Process, NEW o \in Command, Start(p, o)
  PROVE  Undisturbed'
<1> USE DEF Typed, Shape
<1>1. pc[p] \notin {"read"} \union Busy /\ hist[p] = None
  BY DEF Start, Undisturbed, Alone, Ended, Busy
<1>2. /\ pc' \in [Process -> Ended \union {"read"} \union Busy]
      /\ \A q \in Process \ {p} : pc'[q] = pc[q]
      /\ pc'[p] \in {"read", "failed"}
  BY DEF Start, Goto, Ended
<1>3. CASE pc'[p] = "failed"
  <2>1. hist' = hist
    BY <1>3 DEF Start
  <2>2. ASSUME NEW q \in Process, hist[q] # None PROVE Alone(q)'
    <3>1. q # p /\ Alone(q)
      BY <1>1, <2>2 DEF Undisturbed
    <3>2. \A r \in Process \ {q} : ~Running(r)'
      BY <1>2, <1>3, <2>2, <3>1 DEF Alone, Running, Ended
    <3>3. Owes(q)'
      BY <1>2, <2>1, <2>2, <3>1 DEF Start, files, local, Alone, Owes
    <3> QED
      BY <1>2, <2>1, <2>2, <3>1, <3>2, <3>3 DEF Alone
  <2> QED
    BY <2>1, <2>2 DEF Undisturbed, Alone
<1>4. CASE pc'[p] = "read" /\ \E q \in Process \ {p} : Running(q)
  <2>1. hist' = [q \in Process |-> None]
    BY <1>4 DEF Start
  <2> QED
    BY <2>1 DEF Undisturbed, Alone, History
<1>5. CASE pc'[p] = "read" /\ \A q \in Process \ {p} : ~Running(q)
  <2>1. hist' = [hist EXCEPT ![p] = [before |-> vault, due |-> vault]]
    BY <1>5 DEF Start
  <2>2. hist' \in [Process -> History] /\ hist'[p] = [before |-> vault, due |-> vault]
    BY <2>1 DEF Undisturbed, History
  <2>3. \A q \in Process \ {p} : hist[q] = None
    BY <1>5 DEF Undisturbed, Alone, Running, Ended, Busy
  <2>4. \A q \in Process \ {p} : hist'[q] = None
    BY <2>1, <2>3 DEF Undisturbed
  <2>5. \A q \in Process \ {p} : ~Running(q)'
    BY <1>2, <1>5 DEF Running
  <2>6. Owes(p)'
    BY <1>5, <2>2 DEF Owes, Start, files
  <2> QED
    BY <1>5, <2>2, <2>4, <2>5, <2>6 DEF Undisturbed, Alone
<1> QED
  BY <1>2, <1>3, <1>4, <1>5
(* The user asks for something and the command runs on. *)
LEMMA AsksOwes ==
  ASSUME Typed, Undisturbed, NEW p \in Process, Running(p), Typed', Step(p),
         NEW wanted, Asks(p, wanted), vault' = vault, pc[p] # "writing",
         hist[p] # None =>
           /\ wanted \in Content
           /\ wanted = [type |-> base'[p].type, key |-> key'[p],
                        text |-> IF pc'[p] = "editor" THEN tmp'[p] ELSE text'[p]],
         \/ pc'[p] \in {"newpassword", "encrypt"}
         \/ pc'[p] = "editor" /\ key'[p] = base'[p].key
  PROVE  Undisturbed'
<1>1. hist' = [hist EXCEPT ![p] = IF @ = None THEN @ ELSE [@ EXCEPT !.due = wanted]]
  BY DEF Asks
<1>2. pc'[p] \in {"read"} \union Busy
  BY DEF Busy
<1>3. CASE hist[p] = None
  <2>1. hist' = hist
    BY <1>1, <1>3 DEF Undisturbed
  <2> QED
    BY <1>2, <1>3, <2>1, GoesOn DEF Undisturbed
<1>4. CASE hist[p] # None
  <2>1. hist[p] \in [before : Content, due : Content]
    BY <1>4 DEF Undisturbed, History
  <2>2. [hist[p] EXCEPT !.due = wanted] = [before |-> hist[p].before, due |-> wanted]
    BY <2>1
  <2>3. /\ hist'[p] = [before |-> hist[p].before, due |-> wanted]
        /\ \A q \in Process \ {p} : hist'[q] = hist[q]
    BY <1>1, <1>4, <2>2 DEF Undisturbed
  <2>4. [before |-> hist[p].before, due |-> wanted] \in History
    BY <1>4, <2>1 DEF History
  <2>5. hist' \in [Process -> History]
    BY <1>1, <1>4, <2>2, <2>4 DEF Undisturbed
  <2>6. vault' = hist'[p].before
    <3>1. vault = hist[p].before
      BY <1>4 DEF Undisturbed, Alone, Owes
    <3>2. hist'[p].before = hist[p].before
      BY <2>3
    <3> QED
      BY <3>1, <3>2
  <2>7. hist'[p].due = wanted
    BY <2>3
  <2>8. Owes(p)'
    BY <1>4, <2>6, <2>7 DEF Owes
  <2> QED
    BY <1>2, <1>4, <2>3, <2>5, <2>8, GoesOn
<1> QED
  BY <1>3, <1>4

LEMMA UndisturbedStep ==
  ASSUME Typed, Undisturbed, NEW p \in Process, Step(p), Typed'
  PROVE  Undisturbed'
<1> USE DEF Typed, Shape, local, files
<1> DEFINE Stays == \A q \in Process \ {p} : hist'[q] = hist[q]
<1>1. CASE \E o \in Command : Start(p, o)
  BY <1>1, StartAlone
<1>2. CASE \E s \in Ended : End(p, s) /\ Running(p)
  BY <1>2, EndAlone
<1>3. CASE ReadSource(p) /\ ~End(p, "failed")
  <2>1. Running(p) /\ pc'[p] = "password" /\ op'[p] = "create" /\ hist' = hist /\ vault' = vault
    BY <1>3 DEF ReadSource, Goto, Running, Ended
  <2>2. hist'[p] # None => hist[p] # None /\ Owes(p)'
    BY <1>3, <2>1 DEF ReadSource, Undisturbed, Alone, Owes
  <2> QED
    BY <2>1, <2>2, GoesOn DEF Undisturbed, Busy
<1>4. CASE ReadVaultFile(p) /\ ~End(p, "failed")
  <2>1. /\ Running(p) /\ pc'[p] = "password" /\ hist' = hist /\ vault' = vault
        /\ pc[p] = "read" /\ base'[p] = vault
    BY <1>4 DEF ReadVaultFile, Goto, Running, Ended
  <2>2. hist'[p] # None => hist[p] # None /\ Owes(p)'
    BY <2>1 DEF Undisturbed, Alone, Owes
  <2> QED
    BY <2>1, <2>2, GoesOn DEF Undisturbed, Busy
<1>5. CASE \E pw \in Password : EnterPassword(p, pw) /\ ~End(p, "failed")
  <2>1. PICK pw \in Password : EnterPassword(p, pw) /\ ~End(p, "failed")
    BY <1>5
  <2>2. /\ Running(p) /\ pc[p] = "password" /\ vault' = vault /\ base' = base
        /\ key'[p] = pw
        /\ pc'[p] = AfterPassword[op[p]] /\ op' = op
        /\ text'[p] = IF op[p] = "create" THEN text[p] ELSE base[p].text
    BY <2>1 DEF EnterPassword, Goto, Running, Ended
  <2>3. CASE op[p] = "create"
    <3> DEFINE wanted == [type |-> base[p].type, key |-> pw, text |-> text[p]]
    <3>1. wanted \in Content
      BY <2>2, <2>3 DEF Holds, Busy, Content, Version
    <3>2. Asks(p, wanted) /\ pc'[p] = "encrypt" /\ text'[p] = text[p]
      BY <2>1, <2>2, <2>3 DEF EnterPassword, AfterPassword
    <3>3. wanted = [type |-> base'[p].type, key |-> key'[p], text |-> text'[p]]
      BY <2>2, <3>2
    <3> HIDE DEF wanted
    <3> QED
      BY <2>2, <3>1, <3>2, <3>3, AsksOwes
  <2>4. CASE op[p] # "create"
    <3>1. hist' = hist
      BY <2>1, <2>4 DEF EnterPassword, End, Goto
    <3>2. base[p] \in Version /\ base[p].key = pw
      BY <2>1, <2>4 DEF EnterPassword, Decrypts
    <3>3. pc'[p] \in {"temp", "open", "header"}
      BY <2>2, <2>4 DEF AfterPassword, Command
    <3>4. base[p] = [type |-> base[p].type, key |-> base[p].key, text |-> base[p].text]
      BY <3>2 DEF Version
    <3>5. hist[p] # None => Owes(p)'
      BY <2>2, <2>4, <3>1, <3>2, <3>3, <3>4 DEF Undisturbed, Alone, Owes
    <3> QED
      BY <2>2, <3>1, <3>3, <3>5, GoesOn DEF Undisturbed, Busy
  <2> QED
    BY <2>3, <2>4
<1>6. CASE CreateTemp(p)
  <2>1. /\ Running(p) /\ pc[p] = "temp" /\ pc'[p] = "editor" /\ hist' = hist
        /\ vault' = vault /\ tmp'[p] = text[p] /\ base' = base /\ key' = key
    BY <1>6 DEF CreateTemp, Goto, Running, Ended
  <2>2. hist'[p] # None => hist[p] # None /\ Owes(p)'
    BY <2>1 DEF Undisturbed, Alone, Owes
  <2> QED
    BY <2>1, <2>2, GoesOn DEF Undisturbed, Busy
<1>7. CASE EditorEnds(p)
  <2>1. /\ Running(p) /\ pc[p] = "editor" /\ pc'[p] \in {"newpassword", "encrypt"}
        /\ hist' = hist /\ vault' = vault /\ text'[p] = tmp[p] /\ base' = base /\ key' = key
    BY <1>7 DEF EditorEnds, Goto, Running, Ended
  <2>2. hist'[p] # None => hist[p] # None /\ Owes(p)'
    BY <2>1 DEF Undisturbed, Alone, Owes
  <2> QED
    BY <2>1, <2>2, GoesOn DEF Undisturbed, Busy
<1>8. CASE TruncateVault(p)
  <2>1. /\ Running(p) /\ pc[p] = "encrypt" /\ pc'[p] = "writing" /\ hist' = hist
        /\ vault' = Truncated /\ base' = base /\ key' = key /\ text' = text
    BY <1>8 DEF TruncateVault, Goto, Running, Ended
  <2>2. hist'[p] # None => hist[p] # None /\ Owes(p)'
    BY <2>1 DEF Undisturbed, Alone, Owes
  <2> QED
    BY <2>1, <2>2, GoesOn DEF Undisturbed, Busy
<1>9. CASE TruncatePlain(p)
  <2>1. /\ Running(p) /\ pc[p] = "open" /\ pc'[p] = "plain" /\ hist' = hist /\ vault' = vault
    BY <1>9 DEF TruncatePlain, Goto, Running, Ended
  <2>2. hist'[p] # None => hist[p] # None /\ Owes(p)'
    BY <2>1 DEF Undisturbed, Alone, Owes
  <2> QED
    BY <2>1, <2>2, GoesOn DEF Undisturbed, Busy
<1>10. CASE \E t \in Text : EditorSaves(p, t)
  <2>1. PICK t \in Text : EditorSaves(p, t)
    BY <1>10
  <2> DEFINE wanted == [base[p] EXCEPT !.text = t]
  <2>2. /\ Running(p) /\ pc[p] = "editor" /\ pc' = pc /\ vault' = vault
        /\ tmp'[p] = t /\ base' = base /\ key' = key
        /\ hist' = [hist EXCEPT ![p] = IF @ = None THEN @ ELSE [@ EXCEPT !.due = wanted]]
    BY <2>1 DEF EditorSaves, Asks, Running, Ended
  <2>3. base[p] \in Version
    BY <2>2 DEF Holds
  <2>4. /\ wanted = [type |-> base[p].type, key |-> base[p].key, text |-> t]
        /\ wanted \in Content
    BY <2>3 DEF Version, Content
  <2>5. Asks(p, wanted)
    BY <2>1 DEF EditorSaves
  <2>6. hist[p] # None => key[p] = base[p].key
    BY <2>2 DEF Undisturbed, Alone, Owes
  <2> HIDE DEF wanted
  <2>7. CASE hist[p] # None
    <3>1. wanted = [type |-> base'[p].type, key |-> key'[p], text |-> tmp'[p]]
      BY <2>2, <2>4, <2>6, <2>7
    <3> QED
      BY <2>2, <2>4, <2>5, <2>6, <2>7, <3>1, AsksOwes
  <2>8. CASE hist[p] = None
    <3>1. hist' = hist
      BY <2>5, <2>8 DEF Asks, Undisturbed
    <3> QED
      BY <2>2, <2>8, <3>1, GoesOn DEF Undisturbed, Busy
  <2> QED
    BY <2>7, <2>8
<1>11. CASE \E pw \in Password : NewPassword(p, pw)
  <2>1. PICK pw \in Password : NewPassword(p, pw)
    BY <1>11
  <2> DEFINE due == [type |-> base[p].type, key |-> key[p], text |-> text[p]]
  <2> DEFINE wanted == [hist[p].due EXCEPT !.key = pw]
  <2>2. /\ Running(p) /\ pc[p] = "newpassword" /\ pc'[p] = "encrypt" /\ vault' = vault
        /\ key'[p] = pw /\ base' = base /\ text' = text
    BY <2>1 DEF NewPassword, Goto, Running, Ended
  <2>3. hist[p] # None => hist[p].due = due
    BY <2>2 DEF Undisturbed, Alone, Owes
  <2>4. [due EXCEPT !.key = pw] = [type |-> base[p].type, key |-> pw, text |-> text[p]]
    OBVIOUS
  <2>5. base[p].type \in Type /\ text[p] \in Text
    BY <2>2 DEF Holds, Busy, Decided
  <2>6. [type |-> base[p].type, key |-> pw, text |-> text[p]] \in Content
    BY <2>5 DEF Content, Version
  <2>7. Asks(p, wanted)
    BY <2>1 DEF NewPassword
  <2>8. hist[p] # None =>
          wanted = [type |-> base'[p].type, key |-> key'[p], text |-> text'[p]]
    BY <2>2, <2>3, <2>4
  <2>9. hist[p] # None => wanted \in Content
    BY <2>3, <2>4, <2>6
  <2> HIDE DEF wanted
  <2> QED
    BY <2>2, <2>7, <2>8, <2>9, AsksOwes
<1> QED
  <2>1. CASE GiveUp(p) \/ WriteVault(p) \/ WriteFails(p) \/ WritePlain(p) \/ ExtractValue(p)
             \/ Kill(p)
    BY <1>2, <2>1
       DEF GiveUp, WriteVault, WriteFails, WritePlain, ExtractValue, Kill, Running, Ended
  <2>2. CASE \/ ReadSource(p) \/ ReadVaultFile(p)
             \/ \E pw \in Password : EnterPassword(p, pw)
    <3>1. Running(p)
      BY <2>2 DEF ReadSource, ReadVaultFile, EnterPassword, Running, Ended
    <3> QED
      BY <1>2, <1>3, <1>4, <1>5, <2>2, <3>1 DEF Ended
  <2> QED
    BY <1>1, <1>6, <1>7, <1>8, <1>9, <1>10, <1>11, <2>1, <2>2
       DEF Step, Create, Edit, Decrypt, Get, Command

LEMMA UndisturbedNext == Typed /\ Undisturbed /\ Typed' /\ [Next]_vars => Undisturbed'
<1> SUFFICES ASSUME Typed, Undisturbed, Typed', [Next]_vars PROVE Undisturbed'
  OBVIOUS
<1>1. CASE UNCHANGED vars
  BY <1>1 DEF vars, files, local, Undisturbed, Alone, Owes, Running
<1>2. CASE \E p \in Process : Step(p)
  BY <1>2, UndisturbedStep
<1> QED
  BY <1>1, <1>2 DEF Next

LEMMA AlwaysUndisturbed == Spec => []Undisturbed
BY UndisturbedInit, UndisturbedNext, AlwaysTyped, PTL DEF Spec

(* Every variable has its type: what a command is asked for is a vault or, *)
(* before it has been, what it found.                                      *)
THEOREM TypeCorrect == Spec => []TypeOK
<1>1. Typed /\ Undisturbed => TypeOK
  BY DEF Typed, Shape, Undisturbed, History, TypeOK, Busy
<1> QED
  BY <1>1, AlwaysTyped, AlwaysUndisturbed, PTL
-----------------------------------------------------------------------------
(* A command alone is atomic *)

LEMMA EndsWell ==
  ASSUME Typed, Undisturbed, NEW p \in Process, Step(p), hist[p] # None, Running(p),
         pc'[p] \in Ended
  PROVE  IF pc'[p] = "ok" THEN vault' = hist[p].due
                          ELSE pc[p] = "writing" \/ vault' = hist[p].before
<1> USE DEF Typed, Shape, Goto, End
<1>1. Owes(p) /\ Alone(p)
  BY DEF Undisturbed, Alone
<1>2. CASE \E o \in Command : Start(p, o)
  BY <1>2 DEF Start, Running
<1>3. CASE ReadSource(p) \/ ReadVaultFile(p)
  BY <1>1, <1>3 DEF ReadSource, ReadVaultFile, files, Owes, Ended
<1>4. CASE \E pw \in Password : EnterPassword(p, pw)
  <2>1. PICK pw \in Password : EnterPassword(p, pw)
    BY <1>4
  <2>2. pc[p] = "password" /\ pc'[p] \in {"failed", AfterPassword[op[p]]} /\ vault' = vault
    BY <2>1 DEF EnterPassword, files
  <2>3. AfterPassword[op[p]] \notin Ended
    BY DEF AfterPassword, Command, Ended
  <2> QED
    BY <1>1, <2>2, <2>3 DEF Owes
<1>5. CASE \/ CreateTemp(p) \/ EditorEnds(p) \/ TruncateVault(p) \/ TruncatePlain(p)
           \/ \E pw \in Password : NewPassword(p, pw)
           \/ \E t \in Text : EditorSaves(p, t)
  BY <1>5 DEF CreateTemp, EditorEnds, TruncateVault, TruncatePlain, NewPassword,
              EditorSaves, Ended
<1>6. CASE GiveUp(p)
  BY <1>1, <1>6 DEF GiveUp, Owes
<1>7. CASE WriteVault(p)
  <2>1. pc[p] = "writing" /\ vault = Truncated /\ pc'[p] = "ok"
    BY <1>1, <1>7 DEF WriteVault, Owes
  <2>2. vault' = NewVault(p)
    BY <1>7, <2>1 DEF WriteVault
  <2> QED
    BY <1>1, <2>1, <2>2 DEF Owes, NewVault
<1>8. CASE WriteFails(p)
  BY <1>8 DEF WriteFails
<1>9. CASE WritePlain(p) \/ ExtractValue(p)
  <2>1. pc[p] \in {"plain", "header"} /\ vault' = vault
    BY <1>9 DEF WritePlain, ExtractValue, files
  <2> QED
    BY <1>1, <2>1 DEF Owes
<1>10. CASE Kill(p)
  <2>1. pc'[p] = "killed" /\ (pc[p] = "writing" \/ vault' = vault)
    BY <1>10 DEF Kill
  <2> QED
    BY <1>1, <2>1 DEF Owes
<1> QED
  BY <1>2, <1>3, <1>4, <1>5, <1>6, <1>7, <1>8, <1>9, <1>10
     DEF Step, Create, Edit, Decrypt, Get, Command

(* A command that had the vault to itself either does what its user asked for *)
(* or leaves the vault as it was, unless it ended inside writeVaultFile.      *)
THEOREM CommandsAtomic == Spec => AloneIsAtomic
<1>1. Typed /\ Undisturbed /\ [Next]_vars => [EndsAsAsked]_vars
  <2> SUFFICES ASSUME Typed, Undisturbed, NEW q \in Process, Step(q),
                      NEW p \in Process, hist[p] # None, Running(p), pc'[p] \in Ended
               PROVE  IF pc'[p] = "ok" THEN vault' = hist[p].due
                      ELSE pc[p] = "writing" \/ vault' = hist[p].before
    BY DEF Next, EndsAsAsked
  <2>1. p = q
    BY OthersKeep DEF Typed, Running
  <2> QED
    BY <2>1, EndsWell
<1> QED
  BY <1>1, AlwaysTyped, AlwaysUndisturbed, PTL DEF Spec, AloneIsAtomic

-----------------------------------------------------------------------------
(* Layer 3: where a text comes from *)

Comes(p) ==
  /\ pc[p] = "password" /\ op[p] # "create" /\ base[p] \in Version => base[p] \in stored
  /\ pc[p] \in {"open", "plain"}
       => \E v \in stored : v.type = base[p].type /\ v.text = text[p]
  /\ pc[p] = "header" => \E v \in stored : v.key = key[p] /\ v.text = text[p]

Known == /\ vault \in Version => vault \in stored
         /\ \A p \in Process : Comes(p)

LEMMA StumpNotVersion == \A x : [type |-> x] \notin Version
BY DEF Version

LEMMA KnownInit == Init => Known
BY NoneAssumption DEF Init, Known, Comes, Version

(* What is stored stays so: a step matters to the process that takes it. *)
LEMMA KnownStep ==
  ASSUME Typed, Known, NEW p \in Process, Step(p)
  PROVE  /\ vault' \in Version => vault' \in stored'
         /\ stored \subseteq stored'
         /\ Comes(p)'
<1> USE DEF Typed, Shape, Goto, End, local, files
<1>1. CASE \E o \in Command : Start(p, o)
  BY <1>1 DEF Start, Known, Comes
<1>2. CASE ReadSource(p)
  BY <1>2 DEF ReadSource, Known, Comes
<1>3. CASE ReadVaultFile(p)
  BY <1>3 DEF ReadVaultFile, Known, Comes
<1>4. CASE \E pw \in Password : EnterPassword(p, pw)
  <2>1. PICK pw \in Password : EnterPassword(p, pw)
    BY <1>4
  <2>2. CASE op[p] = "create" \/ ~Decrypts(base[p], pw)
    <3>1. pc'[p] \in {"failed", "encrypt"}
      BY <2>1, <2>2 DEF EnterPassword, AfterPassword
    <3> QED
      BY <2>1, <3>1 DEF EnterPassword, Known, Comes
  <2>3. CASE op[p] # "create" /\ Decrypts(base[p], pw)
    <3>1. base[p] \in stored /\ base[p].key = pw
      BY <2>1, <2>3 DEF EnterPassword, Decrypts, Known, Comes
    <3>2. /\ key'[p] = pw /\ text'[p] = base[p].text /\ base' = base
          /\ pc'[p] = AfterPassword[op[p]] /\ stored' = stored /\ vault' = vault
      BY <2>1, <2>3 DEF EnterPassword
    <3>3. pc'[p] # "password"
      BY <3>2 DEF AfterPassword, Command
    <3> QED
      BY <3>1, <3>2, <3>3 DEF Known, Comes
  <2> QED
    BY <2>2, <2>3
<1>5. CASE CreateTemp(p) \/ EditorEnds(p) \/ \E pw \in Password : NewPassword(p, pw)
  BY <1>5 DEF CreateTemp, EditorEnds, NewPassword, Known, Comes
<1>6. CASE TruncateVault(p)
  BY <1>6, StumpNotVersion DEF TruncateVault, Truncated, Known, Comes
<1>7. CASE TruncatePlain(p)
  BY <1>7 DEF TruncatePlain, Known, Comes
<1>8. CASE \E t \in Text : EditorSaves(p, t)
  BY <1>8 DEF EditorSaves, Known, Comes
<1>9. CASE GiveUp(p) \/ ExtractValue(p) \/ WritePlain(p)
  BY <1>9 DEF GiveUp, ExtractValue, WritePlain, Known, Comes
<1>10. CASE WriteVault(p)
  <2>1. pc'[p] = "ok"
    BY <1>10 DEF WriteVault
  <2>2. vault' \in Version => vault' \in stored'
    BY <1>10, StumpNotVersion DEF WriteVault
  <2> QED
    BY <1>10, <2>1, <2>2 DEF WriteVault, Comes
<1>11. CASE WriteFails(p) \/ Kill(p)
  <2>1. pc'[p] \in {"failed", "killed"} /\ stored' = stored
    BY <1>11 DEF WriteFails, Kill
  <2>2. vault' = vault \/ vault' \in Stumps(p)
    BY <1>11 DEF WriteFails, Kill
  <2>3. vault' \in Version => vault' \in stored'
    BY <2>1, <2>2, StumpNotVersion DEF Stumps, Truncated, Known
  <2> QED
    BY <2>1, <2>3 DEF Comes
<1> QED
  BY <1>1, <1>2, <1>3, <1>4, <1>5, <1>6, <1>7, <1>8, <1>9, <1>10, <1>11
     DEF Step, Create, Edit, Decrypt, Get, Command

LEMMA KnownNext == Typed /\ Known /\ [Next]_vars => Known'
<1> SUFFICES ASSUME Typed, Known, [Next]_vars PROVE Known'
  OBVIOUS
<1>1. CASE UNCHANGED vars
  BY <1>1 DEF vars, files, local, Known, Comes
<1>2. ASSUME NEW p \in Process, Step(p) PROVE Known'
  <2>1. ASSUME NEW q \in Process, q # p PROVE Comes(q)'
    <3>1. Comes(q) /\ stored \subseteq stored'
      BY <1>2, KnownStep DEF Known
    <3>2. /\ pc'[q] = pc[q] /\ op'[q] = op[q] /\ base'[q] = base[q]
          /\ key'[q] = key[q] /\ text'[q] = text[q]
      BY <1>2, <2>1, OthersKeep DEF Typed
    <3> QED
      BY <3>1, <3>2 DEF Comes
  <2> QED
    BY <1>2, <2>1, KnownStep DEF Known
<1> QED
  BY <1>1, <1>2 DEF Next

(* Only a step that writes a plain file or prints a value brings a text out. *)
LEMMA BringsOut ==
  ASSUME Typed, Known, NEW p \in Process, Step(p)
  PROVE  OnlyStored
<1> USE DEF Typed, Shape, local, files
<1>1. CASE answer' = answer /\ plain' = plain
  BY <1>1 DEF OnlyStored
<1>2. CASE \E o \in Command : Start(p, o)
  BY <1>2 DEF Start, OnlyStored
<1>3. CASE WritePlain(p)
  <2>1. PICK v \in stored : v.type = base[p].type /\ v.text = text[p]
    BY <1>3 DEF WritePlain, Known, Comes
  <2>2. /\ \/ plain' = [plain EXCEPT ![base[p].type] = text[p]]
           \/ plain' = [plain EXCEPT ![base[p].type] = Cut]
        /\ answer' = answer
    BY <1>3 DEF WritePlain
  <2>3. ASSUME NEW ty \in Type
        PROVE  plain'[ty] \in {plain[ty], Cut}
                 \union {w.text : w \in {u \in stored : u.type = ty}}
    <3>1. CASE plain'[ty] = plain[ty] \/ plain'[ty] = Cut
      BY <3>1
    <3>2. CASE ty = base[p].type /\ plain'[ty] = text[p]
      <4>1. v \in {u \in stored : u.type = ty}
        BY <2>1, <3>2
      <4> QED
        BY <2>1, <3>2, <4>1
    <3> QED
      BY <2>2, <3>1, <3>2
  <2> QED
    BY <2>2, <2>3 DEF OnlyStored
<1>4. CASE TruncatePlain(p) \/ Kill(p)
  <2>1. /\ \/ plain' = plain
           \/ plain' = [plain EXCEPT ![base[p].type] = Cut]
        /\ answer' = answer
    BY <1>4 DEF TruncatePlain, Kill
  <2> QED
    BY <2>1 DEF OnlyStored
<1>5. CASE ExtractValue(p)
  <2>1. PICK v \in stored : v.key = key[p] /\ v.text = text[p]
    BY <1>5 DEF ExtractValue, Known, Comes
  <2>2. /\ plain' = plain
        /\ answer' = [answer EXCEPT ![p] = Extract(text[p], HeaderType(vault))]
    BY <1>5 DEF ExtractValue
  <2>3. Extract(text[p], HeaderType(vault)) \in {None, v.text.value}
    BY <2>1 DEF Extract
  <2>4. v \in {w \in stored : w.key = key[p]}
    BY <2>1
  <2>5. ASSUME NEW q \in Process
        PROVE  answer'[q] \in {answer[q], None}
                 \union {w.text.value : w \in {u \in stored : u.key = key[q]}}
    <3>1. CASE q = p
      <4>1. answer'[q] \in {answer[q], None, v.text.value}
        BY <2>2, <2>3, <3>1
      <4> QED
        BY <2>4, <3>1, <4>1
    <3>2. CASE q # p
      BY <2>2, <3>2
    <3> QED
      BY <3>1, <3>2
  <2> QED
    BY <2>2, <2>5 DEF OnlyStored
<1> QED
  <2>1. CASE ReadSource(p) \/ ReadVaultFile(p) \/ GiveUp(p) \/ CreateTemp(p) \/ EditorEnds(p)
    BY <1>1, <2>1 DEF ReadSource, ReadVaultFile, GiveUp, CreateTemp, EditorEnds
  <2>2. CASE TruncateVault(p) \/ WriteVault(p) \/ WriteFails(p)
    BY <1>1, <2>2 DEF TruncateVault, WriteVault, WriteFails
  <2>3. CASE \/ \E pw \in Password : EnterPassword(p, pw) \/ NewPassword(p, pw)
             \/ \E t \in Text : EditorSaves(p, t)
    BY <1>1, <2>3 DEF EnterPassword, NewPassword, EditorSaves
  <2> QED
    BY <1>2, <1>3, <1>4, <1>5, <2>1, <2>2, <2>3
       DEF Step, Create, Edit, Decrypt, Get, Command

(* Whatever is interleaved, killed or torn, decrypt and get bring out only  *)
(* what was stored whole, under the type or the password it was stored with. *)
THEOREM OnlyStoredComesOut == Spec => NothingInvented
<1>1. Typed /\ Known /\ [Next]_vars => [OnlyStored]_vars
  BY BringsOut DEF Next
<1> QED
  BY <1>1, KnownInit, KnownNext, AlwaysTyped, PTL DEF Spec, NothingInvented
=============================================================================
