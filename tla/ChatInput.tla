------------------------------ MODULE ChatInput ------------------------------
(***************************************************************************)
(* The input of the chat page (components/chat/chat-input.tsx): the text,  *)
(* the palette of commands that a slash opens, the files that are uploaded *)
(* and attached, and the microphone.                                       *)
(*                                                                         *)
(* The message is a slash and what follows it, or words.  A word is what   *)
(* is typed or said at a time, and is new each time.  A step is a          *)
(* callback with the render and the effects it causes.                     *)
(***************************************************************************)
EXTENDS CommandList

CONSTANTS
  Word,   \* words that can be typed or said
  File,   \* files that can be chosen
  Lists,  \* the lists of records that the server may answer with
  Tabbed, \* Tabbed[n]: the query that completing the name n makes
  Noise,  \* a query that no command matches
  None

VARIABLES
  message,   \* the text: a query after a slash, or None, and words
  highlight, \* paletteIndex
  mine,      \* the user's records, as useSlashCommands has them
  fetched,   \* whether their fetch has ended
  attached,  \* attachedFiles
  batch,     \* the chosen files that are still to be uploaded, the first under way
  usable,    \* not disabled: connected, and no approval awaited
  mic,       \* "on" while listening, "stopping" until it has ended
  heard,     \* finalTranscript
  newWords,  \* the words not used yet
  newFiles,  \* the files not chosen yet
  removed,   \* the files taken off again, and those whose upload failed
  times,     \* how often a word or a file was handed to onSend; counted up to 2
  echo       \* whether something was sent while the microphone was not off

wordVars == <<message, heard, newWords>>
fileVars == <<attached, batch, newFiles, removed>>
sendVars == <<times, echo>>
listVars == <<mine, fetched>>
inputVars == <<wordVars, highlight, listVars, fileVars, usable, mic, sendVars>>

Text  == [query : Typed \cup {None}, words : Seq(Word)]
Empty == [query |-> None, words |-> <<>>]

ChatInputTypeOK ==
  /\ message \in Text /\ heard \in Text
  /\ mine \in Lists \cup {<<>>} /\ fetched \in BOOLEAN
  /\ attached \in Seq(File) /\ batch \in Seq(File) /\ IsInjective(attached \o batch)
  /\ highlight \in Nat
  /\ usable \in BOOLEAN /\ echo \in BOOLEAN /\ mic \in {"off", "on", "stopping"}
  /\ newWords \subseteq Word /\ newFiles \subseteq File /\ removed \subseteq File
  /\ times \in [Word \cup File -> 0 .. 2]

-----------------------------------------------------------------------------
(* The palette                                                              *)

Open(m) == m.query # None

\* filteredCommands
Offered(m, recs) == IF Open(m) THEN Search(Merge(recs), m.query) ELSE <<>>

Palette == Offered(message, mine)

\* The selection goes back to the first when the text changes, or the number of
\* commands does.
ResetOnText(chosen) == highlight' = IF message' # message THEN 0 ELSE chosen

Reset(chosen) ==
  highlight' = IF message' # message \/ Len(Palette') # Len(Palette) THEN 0 ELSE chosen

\* onSend, with the words and the files attached; the files are dropped.
SendKeeping(words) ==
  /\ times' = [x \in Word \cup File |->
                 IF x \in ToSet(words) \cup ToSet(attached) /\ times[x] < 2 THEN times[x] + 1
                 ELSE times[x]]
  /\ echo' = (echo \/ mic # "off")
  /\ UNCHANGED attached

Send(words) ==
  /\ times' = [x \in Word \cup File |->
                 IF x \in ToSet(words) \cup ToSet(attached) /\ times[x] < 2 THEN times[x] + 1
                 ELSE times[x]]
  /\ echo' = (echo \/ mic # "off")
  /\ attached' = <<>>

\* runSlashCommand: it does not look at disabled, nor at isUploading.
Run(cmd) ==
  /\ message' = Empty
  /\ IF ~cmd.custom /\ cmd.name \in Local THEN UNCHANGED attached /\ UNCHANGED sendVars
     ELSE Send(<<>>)
  /\ UNCHANGED <<heard, newWords, batch, newFiles, removed, usable, mic>> /\ UNCHANGED listVars
  /\ Reset(highlight)

\* A click on a command of the palette.
Pick(i) == Run(Palette[i + 1])

\* Enter, or the button.
Submit ==
  /\ usable
  /\ IF highlight < Len(Palette) THEN Run(Palette[highlight + 1])
     ELSE /\ Open(message) \/ message.words # <<>> \/ attached # <<>>
          /\ batch = <<>>
          /\ Send(message.words)
          /\ message' = Empty
          /\ UNCHANGED <<heard, newWords, batch, newFiles, removed, usable, mic>>
          /\ UNCHANGED listVars
          /\ Reset(highlight)

\* The arrows and the mouse.
Choose(i) ==
  /\ highlight' = i
  /\ UNCHANGED wordVars
  /\ UNCHANGED <<mic, usable>> /\ UNCHANGED listVars /\ UNCHANGED fileVars /\ UNCHANGED sendVars

\* Tab completes the name; the blank after it goes into the next search.
Tab ==
  /\ usable /\ highlight < Len(Palette)
  /\ message' = [Empty EXCEPT !.query = Tabbed[Palette[highlight + 1].name]]
  /\ UNCHANGED <<heard, newWords, mic, usable>>
  /\ UNCHANGED listVars /\ UNCHANGED fileVars /\ UNCHANGED sendVars
  /\ Reset(highlight)

-----------------------------------------------------------------------------
(* Typing and speaking                                                      *)

\* The whole text is replaced by a slash and a query, or by nothing (Escape).
TypeQuery(q) ==
  /\ usable
  /\ message' = [Empty EXCEPT !.query = q]
  /\ UNCHANGED <<heard, newWords, mic, usable>>
  /\ UNCHANGED listVars /\ UNCHANGED fileVars /\ UNCHANGED sendVars
  /\ Reset(highlight)

TypeWord(w) ==
  /\ usable /\ w \in newWords \ ToSet(message.words)
  /\ newWords' = newWords \ {w}
  /\ message' = [query |-> None, words |-> IF Open(message) THEN <<w>> ELSE Append(message.words, w)]
  /\ UNCHANGED <<heard, mic, usable>>
  /\ UNCHANGED listVars /\ UNCHANGED fileVars /\ UNCHANGED sendVars
  /\ Reset(highlight)

\* toggleMic starts from the text there is, and asks the recognition to stop; it
\* is not started again here before the last one has ended.
ToggleMic ==
  /\ usable /\ mic # "stopping"
  /\ mic' = IF mic = "off" THEN "on" ELSE "stopping"
  /\ heard' = IF mic = "off" THEN message ELSE heard
  /\ UNCHANGED <<message, newWords, highlight, usable>>
  /\ UNCHANGED listVars /\ UNCHANGED fileVars /\ UNCHANGED sendVars

\* onresult: the text is what has been heard, whatever it has become meanwhile; a
\* result that is not final is heard again.
Hear(w, final) ==
  /\ mic # "off" /\ w \in newWords
  /\ LET said == [query |-> IF Open(heard) THEN Noise ELSE None, words |-> Append(heard.words, w)] IN
     /\ message' = said
     /\ IF final THEN heard' = said /\ newWords' = newWords \ {w} ELSE UNCHANGED <<heard, newWords>>
  /\ UNCHANGED <<mic, usable>> /\ UNCHANGED listVars /\ UNCHANGED fileVars /\ UNCHANGED sendVars
  /\ Reset(highlight)

\* onend and onerror: what was heard last stays.
MicEnds ==
  /\ mic # "off" /\ mic' = "off" /\ heard' = Empty
  /\ newWords' = newWords \ ToSet(message.words)
  /\ UNCHANGED <<message, highlight, usable>>
  /\ UNCHANGED listVars /\ UNCHANGED fileVars /\ UNCHANGED sendVars

-----------------------------------------------------------------------------
(* Files                                                                    *)

\* handleFileSelect, of files that are not too large; one after the other.
ChooseFiles(fs) ==
  /\ usable /\ batch = <<>>
  /\ fs # <<>> /\ ToSet(fs) \subseteq newFiles
  /\ batch' = fs /\ newFiles' = newFiles \ ToSet(fs)
  /\ UNCHANGED <<attached, removed, highlight, mic, usable>>
  /\ UNCHANGED wordVars /\ UNCHANGED listVars /\ UNCHANGED sendVars

\* An upload ends: its file is attached to whatever is being written by then.
UploadEnds ==
  /\ batch # <<>>
  /\ batch' = Tail(batch) /\ attached' = Append(attached, Head(batch))
  /\ UNCHANGED <<removed, newFiles, highlight, mic, usable>>
  /\ UNCHANGED wordVars /\ UNCHANGED listVars /\ UNCHANGED sendVars

\* The proxy or the server refuses the file; the others are uploaded all the same.
UploadFails ==
  /\ batch # <<>>
  /\ batch' = Tail(batch) /\ removed' = removed \cup {Head(batch)}
  /\ UNCHANGED <<attached, newFiles, highlight, mic, usable>>
  /\ UNCHANGED wordVars /\ UNCHANGED listVars /\ UNCHANGED sendVars

RemoveFile(f) ==
  /\ f \in ToSet(attached)
  /\ attached' = Keep(attached, File \ {f}) /\ removed' = removed \cup {f}
  /\ UNCHANGED <<batch, newFiles, highlight, mic, usable>>
  /\ UNCHANGED wordVars /\ UNCHANGED listVars /\ UNCHANGED sendVars

-----------------------------------------------------------------------------
(* What the page does                                                       *)

\* The fetch of the records ends; if it fails, the list stays empty.
Load ==
  /\ ~fetched /\ fetched' = TRUE
  /\ mine' \in Lists \cup {<<>>}
  /\ UNCHANGED wordVars
  /\ UNCHANGED <<mic, usable>> /\ UNCHANGED fileVars /\ UNCHANGED sendVars
  /\ Reset(highlight)

\* The socket opens or closes, an approval is asked for or given.
Able ==
  /\ usable' = ~usable
  /\ UNCHANGED <<highlight, mic>>
  /\ UNCHANGED wordVars /\ UNCHANGED listVars /\ UNCHANGED fileVars /\ UNCHANGED sendVars

ChatInputInit ==
  /\ message = Empty /\ heard = Empty /\ highlight = 0
  /\ mine = <<>> /\ fetched = FALSE
  /\ attached = <<>> /\ batch = <<>> /\ removed = {}
  /\ usable = TRUE /\ mic = "off"
  /\ newWords = Word /\ newFiles = File
  /\ times = [x \in Word \cup File |-> 0] /\ echo = FALSE

ChatInputNext ==
  \/ Submit \/ Tab \/ ToggleMic \/ MicEnds \/ Load \/ Able \/ UploadEnds \/ UploadFails
  \/ \E i \in 0 .. Len(Palette) - 1 : Pick(i) \/ Choose(i)
  \/ \E q \in Typed \cup {None} : TypeQuery(q)
  \/ \E w \in newWords : TypeWord(w) \/ \E final \in BOOLEAN : Hear(w, final)
  \/ \E fs \in SetToAllKPermutations(newFiles) : ChooseFiles(fs)
  \/ \E f \in ToSet(attached) : RemoveFile(f)

-----------------------------------------------------------------------------
(* Properties                                                               *)

\* Enter runs the command that is highlighted whenever one is offered: what follows
\* a slash never goes to the agent as a message while a command matches it, however
\* the list changed under the selection (the effect that resets paletteIndex).
CommandIsRun == Palette # <<>> => highlight < Len(Palette)

\* Every file that was uploaded goes with one message, or waits for the next,
\* unless the user took it off; a word is sent once, unless something was sent with
\* the microphone on, whose transcript keeps it.
SendsOnce ==
  /\ \A f \in File \ (newFiles \cup removed) :
       times[f] = IF f \in ToSet(attached \o batch) THEN 0 ELSE 1
  /\ \A f \in removed : times[f] = 0
  /\ ~echo => \A w \in Word : times[w] <= 1

\* What is written is handled once, and as what it shows.
InputIsSound == CommandIsRun /\ SendsOnce

\* What the settings page says: "Typing /name in chat sends the stored prompt"
\* (slash-commands-manager.tsx).
NameSendsPrompt ==
  \A i \in DOMAIN mine :
    (mine[i].custom /\ mine[i].on /\ message.query = mine[i].name /\ highlight = 0) =>
      Palette[1].name = mine[i].name
=============================================================================
