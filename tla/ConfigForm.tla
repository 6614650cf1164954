------------------------------ MODULE ConfigForm ------------------------------
(* The conversions between the configuration the server holds and the form *)
(* of the settings panel (settings-panel.tsx). One field stands for each   *)
(* of these ways of converting: a text with a default, a list that is      *)
(* edited as one text, a number with a default (by ||), switches that fall *)
(* back on an older switch, and the switches that another one forces.      *)
(* Numbers that default by ??, trimmed texts and secrets that are cleared  *)
(* are left out; what the server normalises comes back as it was sent.     *)
EXTENDS Integers

CONSTANTS
  Texts,          \* values of a prompt prefix
  Blank,          \* the empty one
  DefaultText,    \* DEFAULT_PROMPT_STRATEGY's
  Lists,          \* lists of retry prefixes
  Numbers,        \* values of a numeric setting, 0 among them
  DefaultNumber,  \* the default the panel shows for an absent or zero setting
  Empty           \* a numeric input that has been cleared

ASSUME FormAssumption ==
  /\ {Blank, DefaultText} \subseteq Texts /\ Blank # DefaultText
  /\ {0, DefaultNumber} \subseteq Numbers /\ DefaultNumber # 0
  /\ Empty \notin Numbers

\* A boolean of the configuration that may be missing.
Optional == {"absent", "on", "off"}

\* The prompt strategy, stored or on screen: a prefix, and a list of blocks that
\* is edited as one text, in which blanks or empty blocks may surround them.
Prompts == [prefix: Texts, blocks: [list: Lists, padded: BOOLEAN]]

Configs == [prompt: Prompts, number: Numbers, persist: Optional,
            snapshots: Optional, responses: Optional,
            force: Optional, readOnly: BOOLEAN, writer: BOOLEAN]

Forms == [prompt: Prompts, number: Numbers \cup {Empty},
          snapshots: BOOLEAN, responses: BOOLEAN,
          force: BOOLEAN, readOnly: BOOLEAN, writer: BOOLEAN]

NotOff(switch) == switch # "off"
OnOff(b) == IF b THEN "on" ELSE "off"

\* Mutant: the older switch wins over the newer one.
PersistenceFlagFallback(switch, fallback) == NotOff(fallback)

\* A storage switch, or the older one that covered them all.
PersistenceFlag(switch, fallback) ==
  IF switch = "absent" THEN NotOff(fallback) ELSE switch = "on"

\* An empty prefix is shown as the default one.
PromptFormState(prompt) ==
  [prompt EXCEPT !.prefix = IF @ = Blank THEN DefaultText ELSE @]

\* A strategy from a file replaces that part of a form and nothing else of it.
ApplyPromptStrategy(form, prompt) == [form EXCEPT !.prompt = PromptFormState(prompt)]

\* parsePromptBlockList, of what a text or an older configuration holds.
Parse(blocks) == [blocks EXCEPT !.padded = FALSE]

\* A prefix is sent as it is, lists are split again and their blocks trimmed.
PromptPayload(prompt) == [prompt EXCEPT !.blocks = Parse(@)]

\* What the panel shows of a configuration.
BuildForm(c) ==
  [prompt |-> PromptFormState(c.prompt),
   number |-> IF c.number = 0 THEN DefaultNumber ELSE c.number,
   snapshots |-> PersistenceFlag(c.snapshots, c.persist),
   responses |-> PersistenceFlag(c.responses, c.persist),
   force |-> NotOff(c.force),
   readOnly |-> NotOff(c.force) \/ c.readOnly,
   writer |-> ~NotOff(c.force) /\ c.writer]

\* What the effect of the forcing switch makes of a form.
Normal(f) == IF f.force THEN [f EXCEPT !.readOnly = TRUE, !.writer = FALSE] ELSE f

\* What a save sends. An empty number is replaced by the default, a zero is not.
Payload(f) ==
  [prompt |-> PromptPayload(f.prompt),
   number |-> IF f.number = Empty THEN DefaultNumber ELSE f.number,
   persist |-> OnOff(f.snapshots \/ f.responses),
   snapshots |-> OnOff(f.snapshots), responses |-> OnOff(f.responses),
   force |-> OnOff(f.force),
   readOnly |-> f.force \/ f.readOnly,
   writer |-> ~f.force /\ f.writer]

-----------------------------------------------------------------------------
(* What the conversions promise *)

\* The forms that the effect of the forcing switch leaves alone.
IsNormal(f) == Normal(f) = f

\* What is saved comes back as it was typed, but for blanks around blocks and
\* for what the panel's own defaults hide: a cleared prefix, and a number that is
\* cleared or zero. And what has come back once is saved as it is.
ComesBack(f) ==
  LET back == BuildForm(Payload(f)) IN
  /\ f.prompt.prefix # Blank => back.prompt.prefix = f.prompt.prefix
  /\ f.number \notin {0, Empty} => back.number = f.number
  /\ back = [f EXCEPT !.prompt = [back.prompt EXCEPT !.blocks = Parse(f.prompt.blocks)],
                     !.number = back.number]
  /\ BuildForm(Payload(back)) = back

\* Every form is sent as a configuration the server takes.
EveryFormIsSent == \A f \in Forms: Payload(f) \in Configs

EveryFormComesBack == \A f \in Forms: IsNormal(f) => ComesBack(f)
===============================================================================
