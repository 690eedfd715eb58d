----------------------------- MODULE LanguageLock -----------------------------
(***************************************************************************)
(* The language of one call: what the actor holds (session/language.go),   *)
(* what the session row and the caller's preference say of it, and the     *)
(* three that change it.  Turns lock it with the first confident final and *)
(* switch it at a graph's language node; an operator switches it with      *)
(* PATCH profile-fields; a stop takes the actor away in between.           *)
(*                                                                         *)
(* The actor changes under its mutex; the row and the preference are       *)
(* written afterwards, outside the lock, one statement each, from what the *)
(* changer saw.                                                            *)
(*                                                                         *)
(* Its Init, Next, Spec and TypeOK are called Lang..., so that one module  *)
(* can extend it and SessionLifecycle.                                     *)
(***************************************************************************)
EXTENDS Naturals, FiniteSets

CONSTANTS Languages,   \* language codes
          Unknown,       \* the empty code: nothing detected, nothing chosen
          Turns,         \* goroutines that run turns: listen consumer, inject-text
          Operators,     \* PATCH profile-fields requests
          MaxTurns       \* bound: turns each goroutine runs

ASSUME LanguageAssumption ==
  /\ Unknown \notin Languages
  /\ MaxTurns \in Nat \ {0}

VARIABLES lang,        \* the actor's detectedLanguage and activeLanguage
          locked,      \* languageLocked
          row,         \* the session row's two languages
          pref,        \* the caller preference
          aniKnown,    \* the call came with a caller number
          inMap,       \* the actor is in the manager's map
          turn,        \* the turn goroutines
          patch,       \* the PATCH requests
          seen,        \* history: the pairs the actor has held
          overlapped,  \* history: a change began while another was being written
          unwritten    \* history: a write failed

langVars == <<lang, locked, row, pref, aniKnown, inMap, turn, patch,
              seen, overlapped, unwritten>>

Code == Languages \union {Unknown}
Pair == [detected : Code, active : Code]
NoPair == [detected |-> Unknown, active |-> Unknown]

TurnPC  == {"idle", "lock row", "lock pref", "heard", "row", "pref"}
PatchPC == {"idle", "read", "row", "pref", "again", "languages", "write", "done"}
BusyPC  == {"lock row", "lock pref", "row", "pref", "again", "languages", "write"}

\* StartSession: a returning caller's preference switches the language before
\* the leg arrives, and the row follows.
LangInit ==
  /\ aniKnown \in BOOLEAN
  /\ pref \in IF aniKnown THEN Code ELSE {Unknown}
  /\ lang = [detected |-> Unknown, active |-> pref]
  /\ locked = (pref # Unknown)
  /\ row = lang /\ seen = {NoPair, lang}
  /\ inMap = TRUE /\ overlapped = FALSE /\ unwritten = FALSE
  /\ turn = [t \in Turns |-> [pc |-> "idle", saw |-> NoPair, count |-> 0]]
  /\ patch = [o \in Operators |->
                [pc |-> "idle", saw |-> NoPair, primary |-> Unknown]]

-----------------------------------------------------------------------------
\* A change of the actor's languages, under its mutex.
BeingWritten == \/ \E t \in Turns : turn[t].pc \in BusyPC
                \/ \E o \in Operators : patch[o].pc \in BusyPC

\* A seeded slip: a switch does not count as a lock.
ChangeUnlocked(pair) ==
  /\ lang' = pair /\ locked' = locked
  /\ seen' = seen \union {pair} /\ overlapped' = (overlapped \/ BeingWritten)

Change(pair) ==
  /\ lang' = pair /\ locked' = TRUE
  /\ seen' = seen \union {pair} /\ overlapped' = (overlapped \/ BeingWritten)

SwitchActiveLanguage(primary) == Change([lang EXCEPT !.active = primary])

\* LanguagePersist's two statements; the hook discards their errors.
WriteRow(pair) ==
  /\ \E ok \in BOOLEAN : /\ row' = IF ok THEN pair ELSE row
                         /\ unwritten' = (unwritten \/ ~ok)
  /\ UNCHANGED pref

WritePref(active) ==
  /\ \E ok \in BOOLEAN :
       /\ pref' = IF ok /\ aniKnown /\ active # Unknown THEN active ELSE pref
       /\ unwritten' = (unwritten \/ ~ok)
  /\ UNCHANGED row

heldVars == <<lang, locked, seen, overlapped>>
rowVars == <<row, pref, unwritten>>

-----------------------------------------------------------------------------
\* A final locks when it names a language, its confidence is absent or high
\* enough, and it is more than a greeting.
ConfidentListenFinal(code, confidence) == code # Unknown /\ confidence # "low"

TurnGoes(t, pc) == turn' = [turn EXCEPT ![t].pc = pc]
TurnStays == UNCHANGED <<aniKnown, inMap, patch>>

\* deliverListenFinal and Talk.OnListenFinal: the first confident final locks.
OnListenFinal(t) ==
  /\ turn[t].pc = "idle" /\ turn[t].count < MaxTurns
  /\ \E code \in Code, confidence \in {"absent", "low", "high"}, greeting \in BOOLEAN :
       IF ConfidentListenFinal(code, confidence) /\ ~greeting /\ ~locked
         THEN LET pair == [detected |-> code, active |-> code]
              IN /\ Change(pair)
                 /\ turn' = [turn EXCEPT ![t] = [pc |-> "lock row", saw |-> pair,
                                                 count |-> turn[t].count + 1]]
         ELSE /\ turn' = [turn EXCEPT ![t].pc = "heard", ![t].count = @ + 1]
              /\ UNCHANGED heldVars
  /\ TurnStays /\ UNCHANGED rowVars

\* runGraphTurn: a language node switches; any other turn leaves the language.
GraphTurn(t) ==
  /\ turn[t].pc = "heard"
  /\ \/ \E locale \in Languages :
          /\ SwitchActiveLanguage(locale)
          /\ turn' = [turn EXCEPT ![t].pc = "row", ![t].saw = lang']
     \/ TurnGoes(t, "idle") /\ UNCHANGED heldVars
  /\ TurnStays /\ UNCHANGED rowVars

TurnWritesRow(t) ==
  /\ \/ turn[t].pc = "lock row" /\ TurnGoes(t, "lock pref")
     \/ turn[t].pc = "row" /\ TurnGoes(t, "pref")
  /\ WriteRow(turn[t].saw) /\ TurnStays /\ UNCHANGED heldVars

\* After the lock's writes the turn goes on to the graph; the writes of the
\* graph's switch are the last that concern the language.
TurnWritesPref(t) ==
  /\ turn[t].pc \in {"lock pref", "pref"} /\ WritePref(turn[t].saw.active)
  /\ turn' = [turn EXCEPT
       ![t].pc = IF turn[t].pc = "lock pref" THEN "heard" ELSE "idle",
       ![t].saw = NoPair]
  /\ TurnStays /\ UNCHANGED heldVars

TurnStep(t) == \/ OnListenFinal(t) \/ GraphTurn(t)
               \/ TurnWritesRow(t) \/ TurnWritesPref(t)

-----------------------------------------------------------------------------
\* handlePatchProfileFields.
PatchGoes(o, pc) == patch' = [patch EXCEPT ![o].pc = pc]
PatchEnds(o) ==
  patch' = [patch EXCEPT ![o] = [pc |-> "done", saw |-> NoPair, primary |-> Unknown]]
PatchStays == UNCHANGED <<aniKnown, inMap, turn>>

\* GetSession, the pinned profile and the body: a key outside
\* hot_swap_allowed, no mid_call_switch or an empty primary ends the request.
PatchRead(o) ==
  /\ patch[o].pc = "idle"
  /\ \E primary \in Languages :
       patch' = [patch EXCEPT ![o] = [pc |-> "read", saw |-> row, primary |-> primary]]
  /\ PatchStays /\ UNCHANGED <<heldVars, rowVars>>

PatchRefused(o) ==
  /\ patch[o].pc = "read"
  /\ PatchEnds(o) /\ PatchStays /\ UNCHANGED <<heldVars, rowVars>>

\* SwitchLanguage finds the actor, switches it, and persists like a turn.
PatchSwitch(o) ==
  /\ patch[o].pc = "read" /\ inMap
  /\ SwitchActiveLanguage(patch[o].primary)
  /\ PatchGoes(o, "row") /\ PatchStays /\ UNCHANGED rowVars

\* The hook has the pair SwitchActiveLanguage left behind; detected cannot
\* change once the language is locked.
PatchWritesRow(o) ==
  /\ patch[o].pc = "row"
  /\ WriteRow([detected |-> lang.detected, active |-> patch[o].primary])
  /\ PatchGoes(o, "pref") /\ PatchStays /\ UNCHANGED heldVars

\* The hook's preference, and SwitchLanguage's own.
PatchWritesPref(o) ==
  /\ \/ patch[o].pc = "pref" /\ PatchGoes(o, "again")
     \/ patch[o].pc = "again" /\ PatchGoes(o, "languages")
  /\ WritePref(patch[o].primary) /\ PatchStays /\ UNCHANGED heldVars

\* A seeded slip: the detected language is the one the handler began with.
PatchLanguagesStale(o) ==
  /\ patch[o].pc = "languages"
  /\ PatchGoes(o, "write")
  /\ PatchStays /\ UNCHANGED <<heldVars, rowVars>>

\* Languages() reads the actor's detected language; without an actor the one
\* the handler began with stands.
PatchLanguages(o) ==
  /\ patch[o].pc = "languages"
  /\ patch' = [patch EXCEPT ![o].pc = "write",
                 ![o].saw.detected = IF inMap THEN lang.detected ELSE @]
  /\ PatchStays /\ UNCHANGED <<heldVars, rowVars>>

\* The last statement runs under the request's context: a client that has
\* left makes it fail.
PatchWrites(o) ==
  /\ patch[o].pc = "write"
  /\ \/ WriteRow([detected |-> patch[o].saw.detected, active |-> patch[o].primary])
     \/ UNCHANGED rowVars
  /\ PatchEnds(o) /\ PatchStays /\ UNCHANGED heldVars

PatchStep(o) == \/ PatchRead(o) \/ PatchRefused(o) \/ PatchSwitch(o)
                \/ PatchWritesRow(o) \/ PatchWritesPref(o)
                \/ PatchLanguages(o) \/ PatchWrites(o)

-----------------------------------------------------------------------------
\* Manager.Stop takes the actor out of the map; turns hold it still.
Unregister ==
  /\ inMap /\ inMap' = FALSE
  /\ UNCHANGED <<aniKnown, turn, patch, heldVars, rowVars>>

LangNext == \/ \E t \in Turns : TurnStep(t)
        \/ \E o \in Operators : PatchStep(o)
        \/ Unregister

LangSpec == LangInit /\ [][LangNext]_langVars

-----------------------------------------------------------------------------
\* Every variable has its type, and the actor has an active language exactly
\* when it is locked, so that no later final can flip it.
LangTypeOK ==
  /\ lang \in Pair /\ row \in Pair /\ pref \in Code /\ seen \subseteq Pair
  /\ {locked, aniKnown, inMap, overlapped, unwritten} \subseteq BOOLEAN
  /\ turn \in [Turns -> [pc : TurnPC, saw : Pair, count : 0 .. MaxTurns]]
  /\ patch \in [Operators -> [pc : PatchPC, saw : Pair, primary : Code]]
  /\ locked <=> lang.active # Unknown

\* While the call is up, the session row shows a pair of languages the actor
\* really held: a switch never erases the detected language, however the
\* handler's read, the lock and the writes interleave.  And once nobody is
\* writing, if no two changes overlapped and no write failed, the row and the
\* preference are the actor's.
LanguageAgrees ==
  inMap =>
    /\ row \in seen
    /\ ~BeingWritten /\ ~overlapped /\ ~unwritten =>
         /\ row = lang
         /\ aniKnown => pref = lang.active
=============================================================================
