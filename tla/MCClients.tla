----------------------------- MODULE MCClients ------------------------------
(***************************************************************************)
(* The mobile core, the Secret Service with its keyring, the Wi-Fi agent   *)
(* and the transfer of vaults on small instances, scenario by scenario.  A *)
(* scenario is about one of them, whose variables move while the others    *)
(* keep their initial values, and names the operations that occur in it.   *)
(* The parts share model values: a1, a2 are actors, i1, i2 identifiers and *)
(* v1, v2 values.                                                          *)
(***************************************************************************)
EXTENDS MobileCore, SecretService, Keyring, Wifi, Transfer, TLC

CONSTANTS a1, a2, i1, i2, v1, v2

VARIABLE scenario

Scenario(part, kinds) == [part |-> part, kinds |-> kinds]

Scenarios == {
    Scenario("mobile", {"item", "codes", "save"}),
    Scenario("mobile", {"delete", "restore", "seal", "unlock"}),
    Scenario("mobile", {"import", "commit", "replace", "cancel", "seal"}),
    Scenario("mobile", {"fill", "savelogin", "favorite"}),
    Scenario("mobile", {"syncstart", "syncstop", "pair", "save"}),
    Scenario("mobile", {"create", "unlock", "seal"}),
    Scenario("mobile", {"item", "status", "unlock", "delete"}),
    Scenario("service", {"prompt"}),
    Scenario("service", {"prompts"}),
    Scenario("service", {"search"}),
    Scenario("service", {"searches"}),
    Scenario("service", {"sessions"}),
    Scenario("keyring", {}),
    Scenario("wifi", {"edits"}),
    Scenario("wifi", {"moves"}),
    Scenario("wifi", {"strays"}),
    Scenario("transfer", {"export"}),
    Scenario("transfer", {"import"})}

MobileMoves ==
    \/ \E t \in Threads : (\E kind \in scenario.kinds : Calls(t, kind)) \/ Steps(t)
    \/ {"create", "status"} \cap scenario.kinds # {} /\ LeaseEnds
    \/ "pair" \in scenario.kinds
         /\ \E i \in Items, s \in Secrets : SyncArrives(i, [secret |-> s, sites |-> {"web"}])

(* Two prompts or searches while the vault is opened once, or one of them. *)
ServiceMoves ==
    \/ /\ "sessions" \notin scenario.kinds
       /\ \/ Hosting \/ Applying
          \/ (openings = 0 \/ {"prompt", "search"} \cap scenario.kinds # {}) /\ VaultOpens
    \/ "prompt" \in scenario.kinds /\ Reinspect
    \/ \E p \in Prompts :
         /\ \/ "prompts" \in scenario.kinds
            \/ "prompt" \in scenario.kinds /\ \A q \in Prompts \ {p} : prompts[q] = "new"
         /\ Prompting(p)
    \/ \E p \in Searchers :
         /\ \/ "searches" \in scenario.kinds
            \/ "search" \in scenario.kinds /\ \A q \in Searchers \ {p} : search[q] = "idle" /\ told[q] = "nothing"
         /\ Searching(p)
    \/ "sessions" \in scenario.kinds /\ \E s \in SessionPaths : Sessioning(s)

(* The profile is edited, the migration is tried a second time, or the     *)
(* writes of dropped calls land late and the vault is published again.     *)
WifiMoves ==
    /\ \/ Asking \/ DeleteProfile \/ Telling \/ Moves \/ WifiSealed
       \/ "edits" \in scenario.kinds /\ EditProfile
       \/ (generation = 0 \/ "moves" \in scenario.kinds) /\ MoveStarts
       \/ "strays" \in scenario.kinds /\ (StrayLands \/ WifiPublished)
    /\ "strays" \in scenario.kinds \/ strays' = {}

TransferMoves ==
    \/ Elsewhere
    \/ "export" \in scenario.kinds /\ Exporting
    \/ "import" \in scenario.kinds
         /\ (Importing \/ \E plan \in Plans, replace \in BOOLEAN : ImportStarts(plan, replace))

(* A part that a scenario is not about is in one initial state. *)
MCInit ==
    /\ scenario \in Scenarios
    /\ MobileInit /\ SecretServiceInit /\ KeyringInit /\ WifiInit /\ TransferInit
    /\ (core.vault = "absent") = ("create" \in scenario.kinds)
    /\ scenario.part # "mobile" => \A i \in Items : items[i] = Gone
    /\ (profile.system = NoSecret) = (scenario.part # "wifi")
    /\ scenario.part # "wifi" => oldring = NoSecret
    /\ scenario.part # "transfer" => \A n \in Names : stock[n] = NoEntry

MCNext ==
    /\ UNCHANGED scenario
    /\ \/ /\ scenario.part = "mobile" /\ MobileMoves
          /\ UNCHANGED <<ssvars, kvars, wvars, tvars>>
       \/ /\ scenario.part = "service" /\ ServiceMoves
          /\ UNCHANGED <<mvars, kvars, wvars, tvars>>
       \/ /\ scenario.part = "keyring" /\ Keyrings
          /\ UNCHANGED <<mvars, ssvars, wvars, tvars>>
       \/ /\ scenario.part = "wifi" /\ WifiMoves
          /\ UNCHANGED <<mvars, ssvars, kvars, tvars>>
       \/ /\ scenario.part = "transfer" /\ TransferMoves
          /\ UNCHANGED <<mvars, ssvars, kvars, wvars>>

MCSpec == MCInit /\ [][MCNext]_<<mvars, ssvars, kvars, wvars, tvars, scenario>>

Alike == UNION {Permutations({a1, a2}), Permutations({i1, i2}), Permutations({v1, v2})}

\* The type invariants of the parts.
ClientsTypeOK ==
    MobileTypeOK /\ SecretServiceTypeOK /\ KeyringTypeOK /\ WifiTypeOK /\ TransferTypeOK

=============================================================================
