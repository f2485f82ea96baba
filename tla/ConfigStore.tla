------------------------------ MODULE ConfigStore ------------------------------
(***************************************************************************)
(* The configuration file and the commands that edit it                    *)
(* (internal/config/config.go).  An edit loads the file, changes one entry *)
(* and writes the whole file again: truncated first, then written, with no *)
(* lock, so another command may run between any two of these steps.        *)
(***************************************************************************)
EXTENDS Integers

CONSTANTS
    Editors,            \* commands that may run at once
    Sources, Profiles,  \* names of sources and of gateway profiles
    Settings,           \* values an entry may have; "" is a source without any
    MaxEdits            \* bound on the edits begun

VARIABLES
    configFile,         \* `text`: what was written; `under`: the older, longer text it covers
    editor,             \* what each command is doing
    begun,              \* how many edits were begun
    \* What each entry should be, kept for the properties: the last edit of it that
    \* was saved, and whether any other edit ran while that one did.
    settled,
    damaged             \* a command was killed, or read a file that another was writing

configVars == <<configFile, editor, begun, settled, damaged>>

\* An entry is a section of the file; a configuration gives some of them a value.
Entries == {<<"pricing", "">>} \cup ({"source"} \X Sources) \cup ({"gateway"} \X Profiles)

Empty == [e \in {} |-> ""]
Only(e, value) == [x \in {e} |-> value]

\* f, and g where f says nothing.
Over(f, g) == [e \in DOMAIN f \cup DOMAIN g |-> IF e \in DOMAIN f THEN f[e] ELSE g[e]]

\* Save leaves out a source, and a pricing section, that says nothing.
Saved(config) ==
    [e \in {e \in DOMAIN config : e[1] = "gateway" \/ config[e] # ""} |-> config[e]]

\* A text over a longer one ends in part of the older: its lines fall in whatever
\* section comes last, and are lost, misread or refused.
Loads(file) ==
    IF file.under = Empty THEN {file.text}
    ELSE {Over(g, file.text) :
            g \in UNION {[D -> Settings] : D \in SUBSET (DOMAIN file.text \cup DOMAIN file.under)}}

Idle == [step |-> "idle", entry |-> <<>>, value |-> "", config |-> Empty, alone |-> TRUE]

ConfigInit ==
    /\ configFile = [text |-> Empty, under |-> Empty]
    /\ editor = [c \in Editors |-> Idle]
    /\ begun = 0 /\ settled = <<>> /\ damaged = FALSE

Others(c) == {d \in Editors \ {c} : editor[d].step # "idle"}
Writing == {c \in Editors : editor[c].step = "truncated"}

Removed == "removed"

\* SetPricingOverride, SetSource, SetGatewayProfile set an entry; ResetSource and
\* RemoveGatewayProfile delete one.
Load(c, entry, value) ==
    /\ editor[c].step = "idle" /\ begun < MaxEdits
    /\ value = Removed => entry[1] \in {"source", "gateway"}
    /\ \E config \in Loads(configFile) :
        editor' = [d \in Editors |->
            IF d = c THEN [step |-> "loaded", entry |-> entry, value |-> value,
                           config |-> config, alone |-> Others(c) = {}]
            ELSE [editor[d] EXCEPT !.alone = @ /\ editor[d].step = "idle"]]
    /\ begun' = begun + 1
    /\ damaged' = (damaged \/ Writing # {} \/ configFile.under # Empty)
    /\ UNCHANGED <<configFile, settled>>

\* The remains of an older text are seldom a configuration.
LoadFails(c) ==
    /\ editor[c].step = "idle" /\ configFile.under # Empty /\ begun < MaxEdits
    /\ begun' = begun + 1
    /\ UNCHANGED <<configFile, editor, settled, damaged>>

\* Mutant: setting an entry of a section writes that section only.
EditedSection(config, entry, value) ==
    LET kept == {e \in DOMAIN config \ {entry} : value = Removed \/ e[1] = entry[1]}
    IN  Over(IF value = Removed THEN Empty ELSE Only(entry, value), [e \in kept |-> config[e]])

Edited(config, entry, value) ==
    IF value = Removed THEN [e \in DOMAIN config \ {entry} |-> config[e]]
    ELSE Over(Only(entry, value), config)

\* os.WriteFile opens the file and truncates it ...
Truncate(c) ==
    /\ editor[c].step = "loaded"
    /\ editor' = [editor EXCEPT ![c].step = "truncated"]
    /\ configFile' = [text |-> Empty, under |-> Empty]
    /\ UNCHANGED <<begun, settled, damaged>>

\* ... and then writes from its start, over whatever is there by now.
Write(c) ==
    /\ editor[c].step = "truncated"
    /\ LET text == Saved(Edited(editor[c].config, editor[c].entry, editor[c].value))
       IN  \E under \in {Empty, configFile.text} : configFile' = [text |-> text, under |-> under]
    /\ editor' = [editor EXCEPT ![c] = Idle]
    /\ settled' = Over(Only(editor[c].entry, [value |-> editor[c].value, alone |-> editor[c].alone]),
                       settled)
    /\ UNCHANGED <<begun, damaged>>

\* The command is killed, or the disk is full.
Die(c) ==
    /\ editor[c].step \in {"loaded", "truncated"}
    /\ damaged' = (damaged \/ editor[c].step = "truncated")
    /\ editor' = [editor EXCEPT ![c] = Idle]
    /\ UNCHANGED <<configFile, begun, settled>>

ConfigNext ==
    \E c \in Editors :
        \/ \E entry \in Entries, value \in Settings \cup {Removed} : Load(c, entry, value)
        \/ LoadFails(c) \/ Truncate(c) \/ Write(c) \/ Die(c)

ConfigSpec == ConfigInit /\ [][ConfigNext]_configVars

------------------------------------------------------------------------------
(* Properties. *)

\* Edits that overlap may lose each other; an edit that ran alone is kept by every
\* later edit, of whatever entry and however those overlap, as long as no command was
\* killed in its write or read a file in the middle of another's (Load, Save and the
\* five edits of config.Store).
LoneEditsAreKept ==
    Writing = {} /\ ~damaged /\ configFile.under = Empty =>
        \A e \in DOMAIN settled : settled[e].alone =>
            LET value == settled[e].value
            IN  IF value = Removed \/ (value = "" /\ e[1] # "gateway")
                THEN e \notin DOMAIN configFile.text
                ELSE e \in DOMAIN configFile.text /\ configFile.text[e] = value
===============================================================================
