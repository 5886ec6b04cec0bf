----------------------------- MODULE ConfigStore -----------------------------
(****************************************************************************)
(* config/config.c: items in the order of their coming, saved as lines of   *)
(* text.  A line has no type: when it is loaded the type is guessed from    *)
(* the text (lines 184-198), so that a string which looks like something    *)
(* else comes back as that, and a double with the digits that were printed. *)
(* Memory is always given.                                                  *)
(*                                                                          *)
(* Eight of the defaults are strings given as NULL (lines 512-566), of      *)
(* which strdup (lines 376, 393) is undefined.  Where it returns NULL such  *)
(* an item has a value of its own among Content; where it ends the process, *)
(* config_init does not return, and nothing of what follows is reached.     *)
(****************************************************************************)
EXTENDS Integers, Sequences, SequencesExt, Functions

CONSTANTS
    Key,
    Content,   \* typed values that items may have
    Text,      \* what may stand in a line
    Printed,   \* the text of a value
    Guessed,   \* the value a text is taken for
    Cuts,      \* what may be left of a text when the line ends inside it
    Unknown,   \* what an item ought to be after that
    Defaults,  \* config_register_defaults: items, each a key and a value
    MaxSets    \* bound: values set

ConfigAssumption ==
    /\ Printed \in [Content -> Text] /\ Guessed \in [Text -> Content]
    /\ Cuts \in [Text -> SUBSET Text] /\ Unknown \notin Content
    /\ Defaults \in Seq([key : Key, value : Content])
    /\ MaxSets \in Nat

VARIABLES
    settings,  \* items
    lines,     \* the file: keys with their texts
    onFile,    \* there is one
    sets,      \* history: values set
    wanted,    \* history: the value each item ought to have
    saved      \* history: those of the items that the file has

vars == <<settings, lines, onFile, sets, wanted, saved>>

TypeOK ==
    /\ settings \in Seq([key : Key, value : Content])
    /\ lines \in Seq([key : Key, text : Text])
    /\ onFile \in BOOLEAN /\ sets \in Nat
    /\ DOMAIN wanted \subseteq Key /\ DOMAIN saved \subseteq Key

\* find_config_item, 0 when there is none.
Find(list, k) == SelectInSeq(list, LAMBDA m : m.key = k)

\* Slip: the key is not looked for.
WithAnother(list, k, v) == Append(list, [key |-> k, value |-> v])

\* config_set_int, _bool, _string and _double: a new value brings its type.
With(list, k, v) ==
    IF Find(list, k) = 0 THEN Append(list, [key |-> k, value |-> v])
    ELSE [list EXCEPT ![Find(list, k)].value = v]

\* The lines of config_load, each set on top of what is there.
Loaded(list) == FoldLeft(LAMBDA l, m : With(l, m.key, Guessed[m.text]), list, lines)

\* What a list of items ought to hold after loading.
Over(more, values) ==
    [k \in DOMAIN values \cup DOMAIN more |-> IF k \in DOMAIN more THEN more[k] ELSE values[k]]

Values(list) == [k \in {m.key : m \in ToSet(list)} |-> list[Find(list, k)].value]

Init ==
    /\ settings = FoldLeft(LAMBDA l, m : With(l, m.key, m.value), <<>>, Defaults)
    /\ lines = <<>> /\ onFile = FALSE
    /\ sets = 0
    /\ wanted = Values(settings)
    /\ saved = <<>>

Set(k, v) ==
    /\ sets < MaxSets
    /\ sets' = sets + 1
    /\ settings' = With(settings, k, v)
    /\ wanted' = Over([x \in {k} |-> v], wanted)
    /\ UNCHANGED <<lines, onFile, saved>>

Written(n) ==
    [i \in 1..n |-> [key |-> settings[i].key, text |-> Printed[settings[i].value]]]
WantedOf(n) == Restrict(wanted, {settings[i].key : i \in 1..n})

\* config_save truncates the file and does not look whether it was written: after
\* n lines the device may be full, or inside the line that follows.  A line without
\* its "=" is no line to config_load, one that ends later has a shorter text.
Save ==
    /\ \E n \in 0..Len(settings) :
          \/ lines' = Written(n) /\ saved' = WantedOf(n)
          \/ /\ n < Len(settings)
             /\ LET next == settings[n + 1]
                IN  /\ \E text \in Cuts[Printed[next.value]] :
                          lines' = Append(Written(n), [key |-> next.key, text |-> text])
                    /\ saved' = Over([k \in {next.key} |-> Unknown], WantedOf(n))
    /\ onFile' = TRUE
    /\ UNCHANGED <<settings, sets, wanted>>

\* config_load
Load ==
    /\ onFile
    /\ settings' = Loaded(settings)
    /\ wanted' = Over(saved, wanted)
    /\ UNCHANGED <<lines, onFile, sets, saved>>

\* config_destroy and config_init: the defaults, and what the file says.
Restart ==
    LET initial == FoldLeft(LAMBDA l, m : With(l, m.key, m.value), <<>>, Defaults)
    IN  /\ settings' = Loaded(initial)
        /\ wanted' = Over(saved, Values(initial))
        /\ UNCHANGED <<lines, onFile, sets, saved>>

Next == Save \/ Load \/ Restart \/ \E k \in Key, v \in Content : Set(k, v)

Spec == Init /\ [][Next]_vars

-----------------------------------------------------------------------------
(* Properties.                                                              *)

\* The values that are what they were after they are saved and loaded.
Lasting == {v \in Content : Guessed[Printed[v]] = v}

\* No key is there twice, and an item has the value that was set last, or that was
\* loaded after that, through any number of saves, loads and restarts, if it is
\* one that lasts; no item is lost.  A save that the device cuts short changes none
\* but the item in whose line it ended, which is what it was after it is set again
\* (config.c:168-255, 294-434).
SettingsKept ==
    /\ \A i, j \in DOMAIN settings : settings[i].key = settings[j].key => i = j
    /\ DOMAIN Values(settings) = DOMAIN wanted
    /\ \A k \in DOMAIN wanted : wanted[k] \in Lasting => Values(settings)[k] = wanted[k]
=============================================================================
