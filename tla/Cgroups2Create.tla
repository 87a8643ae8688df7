---------------------------- MODULE Cgroups2Create ----------------------------
(***************************************************************************)
(* Cgroups2IsolatorProcess::create(): the isolator factory that runs once  *)
(* at agent start.  It parses the --isolation flag into the controllers to *)
(* create ("core" always; every one for "cgroups/all"; otherwise the      *)
(* controller each cgroups/<name> token names, an unknown name being an   *)
(* error) and then creates each controller's process, any of which may    *)
(* fail.  The set it builds is what Cgroups2Isolator takes as the          *)
(* CONSTANT Controllers.                                                   *)
(*                                                                         *)
(* The flag is a comma-separated string; strings::tokenize() makes it a   *)
(* set of tokens, and a token is abstracted to its prefix ("cgroups" or   *)
(* any other isolator family) and the name after it.                       *)
(***************************************************************************)
CONSTANTS
    Creators,        \* the keys of `creators`
    DeviceCreators,  \* the keys of `creatorsWithDeviceManager`
    CgroupsNames,    \* names that follow "cgroups/" in the flags tried
    OtherTokens,     \* tokens of other isolator families ("filesystem/linux")
    Breakable        \* controllers whose ControllerProcess::create may fail

VARIABLES
    isolation,   \* flags.isolation, as its set of tokens
    broken,      \* the controllers whose process creation fails on this host
    controllers, \* the controller map create() hands to the isolator
    status       \* "none" before create(), then "created" or "error"

vars == <<isolation, broken, controllers, status>>

Known == Creators \cup DeviceCreators
Token(n) == [kind |-> "cgroups", name |-> n]
Tokens == {Token(n) : n \in CgroupsNames} \cup
          {[kind |-> "other", name |-> t] : t \in OtherTokens}

Ok(v) == [ok |-> TRUE, val |-> v]
Err == [ok |-> FALSE, val |-> {}]

\* strings::contains(flags.isolation, "cgroups/all"): a test on the whole
\* flag string, which among these tokens only cgroups/all passes.
MentionsAll(iso) == Token("all") \in iso

\* The names of the cgroups/ tokens; other families are skipped.
Named(iso) == {t.name : t \in {u \in iso : u.kind = "cgroups"}}

\* controllersToCreate: "core", then either every creator for
\* "cgroups/all" or the name of each cgroups/ token, the first unknown
\* name returning an Error.
ControllersToCreate(iso) ==
    IF MentionsAll(iso) THEN Ok({"core"} \cup Known)
    ELSE IF Named(iso) \ Known # {} THEN Err
    ELSE Ok({"core"} \cup Named(iso))

-----------------------------------------------------------------------------
Init ==
    /\ isolation \in SUBSET Tokens
    /\ broken \in SUBSET Breakable
    /\ controllers = {}
    /\ status = "none"

\* create(): parse the flag, then create every controller's process; an
\* Error from either loop is the agent's fatal start-up error.
CreateIsolator ==
    LET toCreate == ControllersToCreate(isolation)
        made == /\ toCreate.ok
                /\ toCreate.val \subseteq Known      \* "is not supported"
                /\ toCreate.val \cap broken = {}
    IN
    /\ status = "none"
    /\ status' = IF made THEN "created" ELSE "error"
    /\ controllers' = IF made THEN toCreate.val ELSE {}
    /\ UNCHANGED <<isolation, broken>>

\* The agent runs on with its isolator, or has exited.
Done ==
    /\ status # "none"
    /\ UNCHANGED vars

Next == CreateIsolator \/ Done

Spec == Init /\ [][Next]_vars /\ WF_vars(CreateIsolator)

-----------------------------------------------------------------------------
\* The spec's reading of the flag (section 6): tokens starting with
\* cgroups/ name controllers, or the value cgroups/all names all of them;
\* an unknown cgroups/<x> is a fatal error.
SpecAccepts(iso) == \A n \in Named(iso) \ {"all"} : n \in Known
\* Section 6: an unknown cgroups/<x> token is a fatal configuration error,
\* whatever else the flag holds.
UnknownIsFatal ==
    status # "none" /\ ~SpecAccepts(isolation) => status = "error"

=============================================================================
