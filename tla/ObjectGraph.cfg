SPECIFICATION FairSpec
CONSTANTS
    Caller = portage
    SourceOwners = {alice}
    Guests = {bob}
    Stranger = other
    NoOne = noone
    Changing = {"tenant", "ns", "crd"}
    Attempts = 2
    MaxEvents = 1
    MaxRestores = 1
INVARIANT TypeOK
PROPERTY GrantsKept
PROPERTY OwnedStays
PROPERTY AttestedMeansOwned
PROPERTY GraphLands
PROPERTY DeletionFollows
