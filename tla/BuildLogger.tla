----------------------------- MODULE BuildLogger -----------------------------
(* ldlogger: a build whose processes have the library preloaded.  An exec call
   of a compiler locks the log, works out the compilation actions of its
   arguments and adds them to the JSON file before the real exec.  *)
EXTENDS Naturals, FiniteSets, Sequences, SequencesExt

CONSTANTS
  Call, NoCall,  \* the exec calls of the build
  Tool,          \* call -> "gcc" (matches CC_LOGGER_GCC_LIKE), "javac" or "other"
  Words,         \* call -> its words, [option, paths]: "-Idir" has both, "-o" no path
  StartedBy,     \* call -> the call whose program makes it, NoCall for the build's own
  OwnEnv,        \* the calls that hand an environment of their own to execve
  Extension,     \* path -> the extension of its name
  Existing,      \* the paths that exist
  DefaultDirs,   \* what the compiler searches, [path, builtin]; <<>> with CC_LOGGER_NO_DEF_DIRS
  MaxKills       \* bound: processes killed in the middle of a call

ASSUME NoCallAssumption == NoCall \notin Call
ASSUME WordsAssumption  ==
  \A c \in Call :
    /\ Words[c] \in Seq(Range(Words[c]))
    /\ \A w \in Range(Words[c]) : w = [option |-> w.option, paths |-> w.paths, abs |-> FALSE]
ASSUME DirsAssumption   == DefaultDirs \in Seq(Range(DefaultDirs))

VARIABLES
  log,      \* the file: its brackets, commas and entries
  lock,     \* who holds the lock file
  callAt,   \* where a call is
  hooked,   \* is LD_PRELOAD in the environ of the calling process?
  plan,     \* what the holder of the lock is about to write, and where
  torn, logged  \* history: was a writer killed; the calls that have written

buildVars == <<log, lock, callAt, hooked, plan, torn, logged>>

-----------------------------------------------------------------------------
(* Collecting the actions of a call. *)
Word(option, paths) == [option |-> option, paths |-> paths, abs |-> FALSE]
Absolute(word) == [word EXCEPT !.abs = TRUE]
AddUnique(seq, x) == IF Contains(seq, x) THEN seq ELSE Append(seq, x)

srcExts == {"c", "cc", "cpp", "cxx", "h", "hh", "hxx", "hpp", "o", "so", "a"}

IsGccSource(word) ==
  /\ word.option = "" /\ Range(word.paths) \subseteq Existing
  /\ Extension[word.paths[1]] \in srcExts

processArgument(s, word) ==
  LET Add(w) == [s EXCEPT !.arguments = Append(@, w)]
  IN CASE s.state = "InOutputArg" ->
            [Add(Absolute(word)) EXCEPT !.state = "Normal", !.output = word.paths]
       [] s.state = "Normal" /\ word = Word("-o", <<>>) -> [Add(word) EXCEPT !.state = "InOutputArg"]
       [] s.state = "Normal" /\ word.option \in {"-I", "-L"} /\ word.paths # <<>> -> Add(Absolute(word))
       [] s.state = "Normal" /\ IsGccSource(word) ->
            [Add(Absolute(word)) EXCEPT !.sources = AddUnique(@, word.paths[1])]
       [] OTHER -> Add(word)

(* Mutant of LastIncPos: a path in a word of its own is forgotten. *)
LastIncPosOfWord(s, word) == IF word.option = "-I" THEN Len(s.arguments) ELSE s.lastIncPos

(* Where the compiler's own directories go: after the last -I, and after its
   path when that is a word of its own. *)
LastIncPos(s, word) ==
  IF word.option # "-I" THEN s.lastIncPos
  ELSE Len(s.arguments) + (IF word.paths = <<>> THEN 1 ELSE 0)

GccStep(s, word) ==
  LET t == processArgument(s, word) IN [t EXCEPT !.lastIncPos = LastIncPos(t, word)]

getDefaultArguments ==
  LET Option(dir) == IF dir.builtin THEN <<>> ELSE <<Absolute(Word("-I", <<dir.path>>))>>
  IN FlattenSeq([k \in DOMAIN DefaultDirs |-> Option(DefaultDirs[k])])

(* One action; the output is no source, although -MT may name it like one. *)
loggerGccParserCollectActions(words) ==
  LET s == FoldLeft(GccStep, [state |-> "Normal", output |-> <<"_noobj">>, sources |-> <<>>,
                              arguments |-> <<Word("gcc", <<>>)>>, lastIncPos |-> 1], words)
  IN << [arguments |-> SubSeq(s.arguments, 1, s.lastIncPos) \o getDefaultArguments
                         \o SubSeq(s.arguments, s.lastIncPos + 1, Len(s.arguments)),
         sources   |-> RemoveFirstMatch(s.sources, LAMBDA p : <<p>> = s.output)] >>

handleClassPath(word) ==
  Absolute([word EXCEPT !.paths = SelectSeq(@, LAMBDA p : p \in Existing)])

(* Mutant of processArg: a source takes the place of the one before. *)
processArgOne(s, word) ==
  CASE s.state # "Normal" -> [s EXCEPT !.common = Append(@, word), !.state = "Normal"]
    [] word.option \in {"-d", "-cp"} -> [s EXCEPT !.common = Append(@, word), !.state = "InClassPath"]
    [] word.option = "" /\ Extension[word.paths[1]] = "java" -> [s EXCEPT !.sources = word.paths]
    [] OTHER -> [s EXCEPT !.common = Append(@, word)]

(* A source is removed from the arguments that all actions share. *)
processArg(s, word) ==
  LET Add(w) == [s EXCEPT !.common = Append(@, w)]
      Enter(state) == [Add(word) EXCEPT !.state = state]
  IN CASE s.state = "InClassDir"  -> [Add(Absolute(word)) EXCEPT !.state = "Normal"]
       [] s.state = "InClassPath" -> [Add(handleClassPath(word)) EXCEPT !.state = "Normal"]
       [] s.state = "Normal" /\ word.option = "-sourcepath" -> [Add(word) EXCEPT !.hasSourcePath = TRUE]
       [] s.state = "Normal" /\ word.option = "-d"  -> Enter("InClassDir")
       [] s.state = "Normal" /\ word.option = "-cp" -> Enter("InClassPath")
       [] s.state = "Normal" /\ word.option = "" /\ Extension[word.paths[1]] = "java" ->
            [s EXCEPT !.sources = AddUnique(@, word.paths[1])]
       [] OTHER -> Add(word)

(* One action for each source. *)
loggerJavacParserCollectActions(words) ==
  LET s == FoldLeft(processArg, [state |-> "Normal", sources |-> <<>>, hasSourcePath |-> FALSE,
                                 common |-> <<Word("javac", <<>>)>>], words)
      default == IF s.hasSourcePath THEN <<>>
                 ELSE <<Word("-sourcepath", <<>>), Absolute(Word("", <<".">>))>>
  IN [k \in DOMAIN s.sources |->
       [arguments |-> s.common \o default \o <<Absolute(Word("", <<s.sources[k]>>))>>,
        sources   |-> <<s.sources[k]>>]]

loggerCollectActionsByProgName ==
  [c \in Call |-> CASE Tool[c] = "gcc"   -> loggerGccParserCollectActions(Words[c])
                    [] Tool[c] = "javac" -> loggerJavacParserCollectActions(Words[c])
                    [] OTHER             -> <<>>]

-----------------------------------------------------------------------------
(* The log. *)
ActionEntries(action) ==
  [j \in DOMAIN action.sources |-> [command |-> action.arguments, file |-> action.sources[j]]]

Entries ==
  [c \in Call |-> LET actions == loggerCollectActionsByProgName[c]
                  IN FlattenSeq([k \in DOMAIN actions |-> ActionEntries(actions[k])])]

Mark(byte) == [mark |-> byte]
IsEntry(token) == "file" \in DOMAIN token

writeAction(entries, first) ==
  LET between == [i \in 1 .. 2 * Len(entries) |->
                   IF i % 2 = 1 THEN Mark(",") ELSE entries[i \div 2]]
  IN SubSeq(between, IF first THEN 2 ELSE 1, Len(between))

(* What a writer puts at the end of the log, over a "]" that is there; a log
   of five bytes or less has no entry yet. *)
writeActions(c) ==
  IF loggerCollectActionsByProgName[c] = <<>> THEN [keep |-> Len(log), text |-> <<>>]
  ELSE [keep |-> IF log # <<>> /\ Last(log) = Mark("]") THEN Len(log) - 1 ELSE Len(log),
        text |-> (IF log = <<>> THEN <<Mark("[")>> ELSE <<>>)
                   \o writeAction(Entries[c], Range(log) \subseteq {Mark("["), Mark("]")})
                   \o <<Mark("]")>>]

(* The first n pieces of the plan are in the file. *)
Written(c, n) == SubSeq(log, 1, plan[c].keep) \o SubSeq(plan[c].text, 1, n)
NoPlan == [keep |-> 0, text |-> <<>>]

-----------------------------------------------------------------------------
BuildInit ==
  /\ log = <<>> /\ lock = NoCall
  /\ callAt = [c \in Call |-> "waiting"]
  /\ hooked = [c \in Call |-> TRUE]
  /\ plan = [c \in Call |-> NoPlan]
  /\ torn = FALSE /\ logged = {}

Proceed(c, label) == callAt' = [callAt EXCEPT ![c] = label]
buildHistory == <<torn, logged>>

(* What the program of a call finds in its environment; the library only
   changes the environ of its own process. *)
Inherited(c) == hooked[c] \/ c \in OwnEnv

MakeCall(c) ==
  /\ callAt[c] = "waiting"
  /\ StartedBy[c] # NoCall => callAt[StartedBy[c]] = "running"
  /\ LET preloaded == StartedBy[c] = NoCall \/ Inherited(StartedBy[c])
     IN /\ Proceed(c, IF preloaded THEN "lock" ELSE "running")
        /\ hooked' = [hooked EXCEPT ![c] = preloaded]
  /\ UNCHANGED <<log, lock, plan, buildHistory>>

(* Mutant of aquireLock: the lock is taken whoever has it. *)
aquireLockShared(c) ==
  /\ callAt[c] = "lock"
  /\ lock' = c /\ Proceed(c, "collect")
  /\ UNCHANGED <<log, hooked, plan, buildHistory>>

aquireLock(c) ==
  /\ callAt[c] = "lock" /\ lock = NoCall
  /\ lock' = c /\ Proceed(c, "collect")
  /\ UNCHANGED <<log, hooked, plan, buildHistory>>

(* The lock file or the log cannot be opened: the call goes on unlogged. *)
logExecFails(c) ==
  /\ callAt[c] = "lock"
  /\ Proceed(c, "running")
  /\ UNCHANGED <<log, lock, hooked, plan, buildHistory>>

(* The first call renames LD_PRELOAD in the environ; the second looks for the
   old name and finds nothing. *)
turnLogging(c) == hooked' = [hooked EXCEPT ![c] = FALSE]

(* So that the compiler that is asked is not logged itself. *)
Collect(c) ==
  /\ callAt[c] = "collect"
  /\ IF Tool[c] = "gcc" THEN turnLogging(c) ELSE UNCHANGED hooked
  /\ Proceed(c, IF Tool[c] = "gcc" /\ DefaultDirs # <<>> THEN "ask" ELSE "seek")
  /\ UNCHANGED <<log, lock, plan, buildHistory>>

(* popen: a compiler with the library would wait for the lock that c holds. *)
AskCompiler(c) ==
  /\ callAt[c] = "ask"
  /\ hooked[c] => lock = NoCall
  /\ Proceed(c, "seek")
  /\ UNCHANGED <<log, lock, hooked, plan, buildHistory>>

(* fseek: the size of the log decides how the new text begins. *)
Seek(c) ==
  /\ callAt[c] = "seek"
  /\ plan' = [plan EXCEPT ![c] = writeActions(c)]
  /\ Proceed(c, "write")
  /\ UNCHANGED <<log, lock, hooked, buildHistory>>

Write(c) ==
  /\ callAt[c] = "write"
  /\ log' = Written(c, Len(plan[c].text))
  /\ plan' = [plan EXCEPT ![c] = NoPlan]
  /\ logged' = logged \cup {c}
  /\ Proceed(c, "unlock")
  /\ UNCHANGED <<lock, hooked, torn>>

freeLock(c) ==
  /\ callAt[c] = "unlock"
  /\ lock' = NoCall /\ Proceed(c, "running")
  /\ UNCHANGED <<log, hooked, plan, buildHistory>>

(* The kernel frees the lock of a process that is killed; the log keeps what
   has been flushed by then. *)
Kill(c) ==
  /\ Cardinality({d \in Call : callAt[d] = "killed"}) < MaxKills
  /\ callAt[c] \in {"lock", "collect", "ask", "seek", "write", "unlock"}
  /\ lock' = IF lock = c THEN NoCall ELSE lock
  /\ plan' = [plan EXCEPT ![c] = NoPlan]
  /\ Proceed(c, "killed")
  /\ IF plan[c].text # <<>>
     THEN /\ torn' = TRUE
          /\ \E n \in DOMAIN plan[c].text :
               \/ log' = Written(c, n)
               \/ IsEntry(plan[c].text[n]) /\ log' = Append(Written(c, n - 1), Mark("half"))
     ELSE UNCHANGED <<log, torn>>
  /\ UNCHANGED <<hooked, logged>>

(* The program has done its work, its own calls among it. *)
ProgramEnds(c) ==
  /\ callAt[c] = "running"
  /\ \A d \in Call : StartedBy[d] = c => callAt[d] \in {"ended", "killed"}
  /\ Proceed(c, "ended")
  /\ UNCHANGED <<log, lock, hooked, plan, buildHistory>>

CallStep(c) ==
  MakeCall(c) \/ aquireLock(c) \/ logExecFails(c) \/ Collect(c) \/ AskCompiler(c) \/ Seek(c)
    \/ Write(c) \/ freeLock(c) \/ ProgramEnds(c)

(* A call whose caller was killed before its program ran is never made. *)
BuildEnded ==
  \A c \in Call :
    \/ callAt[c] \in {"ended", "killed"}
    \/ callAt[c] = "waiting" /\ StartedBy[c] # NoCall /\ callAt[StartedBy[c]] = "killed"

-----------------------------------------------------------------------------
ListTokens(entries) ==
  <<Mark("[")>> \o writeAction(entries, TRUE) \o <<Mark("]")>>

(* What stands where a list has its entries. *)
EntriesOf(tokens) == [k \in 1 .. (Len(tokens) - 1) \div 2 |-> tokens[2 * k]]

IsList(tokens) ==
  /\ tokens = ListTokens(EntriesOf(tokens))
  /\ \A k \in DOMAIN EntriesOf(tokens) : IsEntry(EntriesOf(tokens)[k])

Collected == UNION {{<<c, k>> : k \in DOMAIN Entries[c]} : c \in logged}

(* As long as no writer has been killed, the log is a JSON list whenever the
   lock is free, of every action of every call that wrote, each as often as it
   was collected (flock, writeActions). *)
LogComplete ==
  lock = NoCall /\ ~torn =>
    LET found == EntriesOf(log)
    IN /\ log # <<>> => IsList(log)
       /\ \A e \in Range(found) \cup {Entries[p[1]][p[2]] : p \in Collected} :
            Cardinality({i \in DOMAIN found : found[i] = e})
              = Cardinality({p \in Collected : Entries[p[1]][p[2]] = e})

(* A logged command is the one that was run: the caller's words in the caller's
   order, with the compiler's own directories in one place, behind all of the
   caller's and not between an option and its value; and no entry is about the
   file that the call writes. *)
Plain(word) == [word EXCEPT !.abs = FALSE]
TakesValue(word) == word.option \in {"-I", "-o"} /\ word.paths = <<>>

WellFormed(words) ==
  \A j \in DOMAIN words :
    TakesValue(words[j]) => j + 1 \in DOMAIN words /\ words[j + 1].option = ""

IsOutput(words, j) ==
  /\ words[j] = Word("-o", <<>>)
  /\ \A k \in DOMAIN words : words[k] = Word("-o", <<>>) => k <= j

(* The command is the words with the default arguments behind the first n. *)
InsertedAfter(n, words, command) ==
  LET dirs == Len(getDefaultArguments)
  IN /\ Len(command) = 1 + Len(words) + dirs
     /\ \A k \in 1 .. n : Plain(command[1 + k]) = words[k]
     /\ \A k \in 1 .. dirs : command[1 + n + k] = getDefaultArguments[k]
     /\ \A k \in n + 1 .. Len(words) : Plain(command[1 + dirs + k]) = words[k]
     /\ n # 0 => ~TakesValue(words[n])
     /\ \A k \in DOMAIN words : words[k].option = "-I" => k <= n

CommandsKept ==
  \A c \in logged : Tool[c] = "gcc" /\ WellFormed(Words[c]) =>
    \A e \in Range(Entries[c]) :
      /\ \E n \in 0 .. Len(Words[c]) : InsertedAfter(n, Words[c], e.command)
      /\ \A j \in DOMAIN Words[c] : IsOutput(Words[c], j) => <<e.file>> # Words[c][j + 1].paths
=============================================================================
