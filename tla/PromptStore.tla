----------------------------- MODULE PromptStore -----------------------------
(***************************************************************************)
(* The operators' prompts for the types of documents (loan_processing.py,  *)
(* "Processing prompts"): one file, saved whole under a lock by the        *)
(* handlers of PUT /loan/prompts and read without it.                      *)
(*                                                                         *)
(* A save's body gives some types a text: one long enough to be a prompt,  *)
(* Short of it, or Reset, which stands for an empty text and for the       *)
(* built-in one.                                                           *)
(***************************************************************************)
EXTENDS Integers, FiniteSets

CONSTANTS
  Types,       \* PROCESSING_TYPES
  Texts,       \* prompts of at least MIN_PROMPT_CHARS, none of them built in
  Short, Reset, NoText,
  Operators,   \* who saves, each from one request at a time
  Nobody,
  MaxSaves, MaxFailedSaves

ASSUME PromptAssumption ==
  /\ Short \notin Texts /\ Reset \notin Texts /\ NoText \notin Texts /\ Short # Reset
  /\ Nobody \notin Operators

VARIABLES
  promptFile,   \* [text, prompts, meta]: text says whether it can be read
  saving,       \* by operator, the request that saves
  promptLock,   \* who holds _prompts_lock
  asked,        \* history: by type, the text that the saves asked for, and who asked for it first
  saves, failedSaves
promptVars == <<promptFile, saving, promptLock, asked, saves, failedSaves>>

NoOverrides == [prompts |-> [t \in Types |-> NoText], meta |-> [t \in Types |-> Nobody]]
NotSaving == [at |-> "idle"]
BuiltIn == [text |-> Reset, by |-> Nobody]

PromptInit ==
  /\ promptFile = [text |-> "missing", prompts |-> NoOverrides.prompts, meta |-> NoOverrides.meta]
  /\ saving = [o \in Operators |-> NotSaving]
  /\ promptLock = Nobody
  /\ asked = [t \in Types |-> BuiltIn]
  /\ saves = 0 /\ failedSaves = 0

\* load_prompt_overrides: no overrides where the file is missing or cannot be parsed.
Load ==
  IF promptFile.text = "whole" THEN [prompts |-> promptFile.prompts, meta |-> promptFile.meta]
  ELSE NoOverrides

\* loan_prompts_save: the types of the body are known ones.
Save(o, body) ==
  /\ saving[o] = NotSaving /\ saves < MaxSaves
  /\ saving' = [saving EXCEPT ![o] = [at |-> "lock", body |-> body]]
  /\ saves' = saves + 1
  /\ UNCHANGED <<promptFile, promptLock, asked, failedSaves>>

\* What the file will hold: types that the body leaves alone as they are, the others as it says;
\* the name at a prompt is that of whoever last changed its text.
Named(body) == {t \in DOMAIN body : body[t] # Reset}
Merged(current, body, o) ==
  LET prompt(t) == IF t \notin DOMAIN body THEN current.prompts[t]
                   ELSE IF t \in Named(body) THEN body[t] ELSE NoText
  IN [prompts |-> [t \in Types |-> prompt(t)],
      meta |-> [t \in Types |-> IF prompt(t) = NoText THEN Nobody
                                ELSE IF prompt(t) = current.prompts[t] THEN current.meta[t] ELSE o]]

\* Under the lock the file is read; a text that is too short ends the save.
Acquire(o) ==
  /\ saving[o].at = "lock" /\ promptLock = Nobody
  /\ LET body == saving[o].body
     IN IF \E t \in DOMAIN body : body[t] = Short
        THEN /\ saving' = [saving EXCEPT ![o] = NotSaving]
             /\ UNCHANGED promptLock
        ELSE /\ saving' = [saving EXCEPT ![o] =
                             [at |-> "truncate", body |-> body, new |-> Merged(Load, body, o)]]
             /\ promptLock' = o
  /\ UNCHANGED <<promptFile, asked, saves, failedSaves>>

\* Mutant: the lock is released before the file is written.
TruncateUnlocked(o) ==
  /\ saving[o].at = "truncate"
  /\ saving' = [saving EXCEPT ![o].at = "write"]
  /\ promptFile' = [promptFile EXCEPT !.text = "torn"]
  /\ promptLock' = Nobody
  /\ UNCHANGED <<asked, saves, failedSaves>>

\* write_text opens the file, which empties it, and then writes.
Truncate(o) ==
  /\ saving[o].at = "truncate"
  /\ saving' = [saving EXCEPT ![o].at = "write"]
  /\ promptFile' = [promptFile EXCEPT !.text = "torn"]
  /\ UNCHANGED <<promptLock, asked, saves, failedSaves>>

Asked(body, o) ==
  [t \in Types |-> IF t \notin DOMAIN body THEN asked[t]
                   ELSE IF body[t] = asked[t].text THEN asked[t]
                   ELSE IF body[t] = Reset THEN BuiltIn ELSE [text |-> body[t], by |-> o]]
WritePrompts(o) ==
  /\ saving[o].at = "write"
  /\ promptFile' = [text |-> "whole", prompts |-> saving[o].new.prompts, meta |-> saving[o].new.meta]
  /\ asked' = Asked(saving[o].body, o)
  /\ saving' = [saving EXCEPT ![o] = NotSaving]
  /\ promptLock' = Nobody
  /\ UNCHANGED <<saves, failedSaves>>

\* A file that was emptied and not written has lost every override.
Lost == asked' = IF promptFile.text = "torn" THEN [t \in Types |-> BuiltIn] ELSE asked

\* The file cannot be opened, or not be written.
WriteFails(o) ==
  /\ saving[o].at \in {"truncate", "write"} /\ failedSaves < MaxFailedSaves
  /\ saving' = [saving EXCEPT ![o] = NotSaving]
  /\ promptLock' = Nobody
  /\ Lost
  /\ failedSaves' = failedSaves + 1
  /\ UNCHANGED <<promptFile, saves>>

\* The server is started anew in the middle of a save.
RestartSaving ==
  /\ promptLock # Nobody /\ failedSaves < MaxFailedSaves
  /\ saving' = [o \in Operators |-> NotSaving]
  /\ promptLock' = Nobody
  /\ Lost
  /\ failedSaves' = failedSaves + 1
  /\ UNCHANGED <<promptFile, saves>>

Bodies == UNION {[T -> Texts \cup {Short, Reset}] : T \in SUBSET Types}

PromptNext ==
  \/ RestartSaving
  \/ \E o \in Operators : \/ \E body \in Bodies : Save(o, body)
                          \/ Acquire(o) \/ Truncate(o) \/ WritePrompts(o) \/ WriteFails(o)

PromptSpec == PromptInit /\ [][PromptNext]_promptVars

\* prompt_for: a job's prompt where its own request gives none.
PromptFor(t) == IF Load.prompts[t] = NoText THEN Reset ELSE Load.prompts[t]
\* list_prompts: the settings page, each type with its prompt and who changed it.
Listed == [t \in Types |-> [prompt |-> PromptFor(t), customised |-> Load.prompts[t] # NoText,
                            by |-> Load.meta[t]]]

(***************************************************************************)
(* Properties.                                                             *)
(***************************************************************************)
\* Unless a save is just being written, the page lists, and a job takes, the text last asked for of
\* each type, under the name of the operator who gave it that text: two saves of different types,
\* or of one, lose nothing of each other, and a save that fails puts every type back to the
\* built-in (save_prompt_overrides reads and writes under one lock, the file holds all types).
PromptsAreAsAsked ==
  (\A o \in Operators : saving[o].at # "write") =>
    \A t \in Types :
      Listed[t] = [prompt |-> asked[t].text, customised |-> asked[t] # BuiltIn, by |-> asked[t].by]
=============================================================================
