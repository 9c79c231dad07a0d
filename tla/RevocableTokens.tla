-------------------------- MODULE RevocableTokens --------------------------
(* What TokenBlacklist is given and UserDeletion gives it: tokens with     *)
(* their owners and lives, and the limits of the two services.             *)
EXTENDS Naturals, FiniteSets

CONSTANTS
    Key,       \* what stands for a token: a jti, or the id of its row; finitely many
    User,
    None,      \* the absence of a value
    Owner,     \* the user of each token
    Exp,       \* when each token expires
    MinTtl,    \* an hour
    MaxTime    \* bound on the clock

ASSUME RevocableTokensAssumption ==
    /\ IsFiniteSet(Key)
    /\ None \notin Key \cup User
    /\ Owner \in [Key -> User]
    /\ Exp \in [Key -> Nat]
    /\ MinTtl \in Nat \ {0}
    /\ MaxTime \in Nat
=============================================================================
