----------------------------- MODULE Controls -------------------------------
(***************************************************************************)
(* The controls beside the conversation, of which a behaviour has one: the *)
(* settings of the slash commands (SlashCommands), the input of the chat   *)
(* (ChatInput), the dialog that shares a conversation (ShareDialog) and    *)
(* the rating of a message (RatingButtons).  Those that make requests use  *)
(* the same variables for them.                                            *)
(***************************************************************************)
EXTENDS CommandList

CONSTANTS
  Call, MaxIds, MaxChanges, Old, New,   \* of SlashCommands
  Word, File, Lists, Tabbed, Noise,     \* of ChatInput
  User, Link,                           \* of ShareDialog
  SettingNames, SettingBuiltins, \* the Name and Builtins of the settings
  MaxShares,                     \* the MaxIds of ShareDialog
  None

VARIABLES
  page,
  stored, lastId, call, crossed, missed, stale,
  records, error, dialog, changes,
  open, shares, revoking, known, tells,
  admin, shown, cached, comment, screenOld, cacheOld,
  message, highlight, mine, fetched, attached, batch, usable, mic, heard, newWords, newFiles,
  removed, times, echo

requestVars == <<stored, lastId, call, crossed, missed, stale>>
settingsOnly == <<records, error, dialog, changes>>
shareOnly == <<open, shares, revoking, known, tells>>
ratingOnly == <<admin, shown, cached, comment, screenOld, cacheOld>>
chatVars == <<message, highlight, mine, fetched, attached, batch, usable, mic, heard, newWords,
              newFiles, removed, times, echo>>
vars == <<page, requestVars, settingsOnly, shareOnly, ratingOnly, chatVars>>

-----------------------------------------------------------------------------
Settings == INSTANCE SlashCommands WITH Name <- SettingNames, Builtins <- SettingBuiltins
Input    == INSTANCE ChatInput
Shares   == INSTANCE ShareDialog WITH MaxIds <- MaxShares
Buttons  == INSTANCE RatingButtons

\* A record of a command, as the chat uses it.
InputRecord == [id : Nat, name : Name, custom : BOOLEAN, on : BOOLEAN]

ASSUME ControlsAssumption ==
  /\ MaxShares \in Nat \ {0} /\ None \notin Buttons!Shown
  /\ MaxIds \in Nat /\ MaxChanges \in Nat /\ SettingBuiltins \in Seq(SettingNames)
  /\ None \notin Nat /\ None \notin BOOLEAN /\ None \notin SettingNames
  /\ None \notin Settings!Record /\ New \notin Nat /\ New # None
  /\ Old \subseteq Settings!Record /\ Cardinality(Old) \in 0 .. MaxIds
  /\ IsFiniteSet(Old)
  /\ \A r, s \in Old : r.name = s.name \/ r.id = s.id => r = s
  /\ \A r \in Old : r.id <= Cardinality(Old) /\ (~r.custom => r.name \in ToSet(SettingBuiltins))
  /\ Lists \subseteq Seq(InputRecord)
  /\ Tabbed \in [Name -> Typed] /\ Noise \in Typed
  /\ IsFiniteSet(File) /\ Word \cap File = {}

-----------------------------------------------------------------------------
\* A control that is not there does nothing.
NoNotes == crossed = FALSE /\ missed = FALSE /\ stale = FALSE

NoRequests ==
  /\ stored = {} /\ lastId = 0 /\ call = [k \in Call |-> Settings!Idle]
  /\ NoNotes

NoSettings == records = <<>> /\ error = FALSE /\ dialog = None /\ changes = 0
NoShares ==
  /\ open = FALSE /\ shares = <<>> /\ revoking = None
  /\ known = {} /\ tells = [k \in Call |-> {}]
NoButtons ==
  /\ admin = FALSE /\ shown = None /\ cached = None /\ comment = FALSE
  /\ screenOld = FALSE /\ cacheOld = FALSE

ControlsInit ==
  /\ Input!ChatInputInit
  /\ \/ page = "chat" /\ NoRequests /\ NoSettings /\ NoShares /\ NoButtons
     \/ page = "settings" /\ Settings!CommandsInit /\ NoShares /\ NoButtons
     \/ page = "share" /\ Shares!ShareInit /\ NoSettings /\ NoButtons
     \/ page = "rating" /\ Buttons!RatingInit /\ lastId = 0 /\ NoNotes /\ NoSettings /\ NoShares

SettingsStep ==
  /\ page = "settings" /\ Settings!CommandsNext
  /\ UNCHANGED <<page, shareOnly, ratingOnly, chatVars>>

ShareStep ==
  /\ page = "share" /\ Shares!ShareNext
  /\ UNCHANGED <<page, settingsOnly, ratingOnly, chatVars>>

RatingStep ==
  /\ page = "rating" /\ Buttons!RatingNext
  /\ UNCHANGED <<page, lastId, crossed, missed, stale, settingsOnly, shareOnly, chatVars>>

ChatStep ==
  /\ page = "chat" /\ Input!ChatInputNext
  /\ UNCHANGED <<page, requestVars, settingsOnly, shareOnly, ratingOnly>>

ControlsNext == SettingsStep \/ ShareStep \/ RatingStep \/ ChatStep

ControlsSpec == ControlsInit /\ [][ControlsNext]_vars

-----------------------------------------------------------------------------
\* What the behaviour has is well typed (see the modules).
ControlsTypeOK ==
  /\ page = "settings" => Settings!CommandsTypeOK
  /\ page = "share" => Shares!ShareTypeOK
  /\ page = "rating" => Buttons!RatingTypeOK
  /\ Input!ChatInputTypeOK

\* One row for a name, whatever requests race, and the settings at rest show the
\* user's rows (see SlashCommands).
SettingsAreSound == page = "settings" => Settings!SettingsAreSound

\* The dialog shows the shares there are, as far as it has been told (see ShareDialog).
SharesAreShown == page = "share" => Shares!SharesAreShown

\* A message shows the newest rating until it is changed again (see RatingButtons).
RatingIsShown == page = "rating" => Buttons!RatingIsShown

\* Enter runs the command that is offered; files and words are sent once (see
\* ChatInput).
InputIsSound == Input!InputIsSound

\* What the module of the table says, which does not hold (see SlashCommands).
BuiltinsAreNotShadowed == page = "settings" => Settings!BuiltinsAreNotShadowed

\* What does not hold of the message and of the dialog (see RatingButtons, ShareDialog).
StoresAgree == page = "rating" => Buttons!StoresAgree
SharesAreStored == page = "share" => Shares!SharesAreStored

\* What the settings page says, which does not hold (see ChatInput).
NameSendsPrompt == Input!NameSendsPrompt
=============================================================================
