------------------------------ MODULE MCConfigFiles ------------------------------
EXTENDS ConfigFiles

\* Nothing is exported, everything, or the key of the provider that is not the default.
MCShells == {[key |-> [p \in ProviderNames |-> v], token |-> v] : v \in {"", "shell"}}
               \cup {[key |-> [p \in ProviderNames |-> IF p = "m" THEN "shell" ELSE ""], token |-> ""]}
==================================================================================
