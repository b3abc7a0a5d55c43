SPECIFICATION Spec
CONSTANTS
    u1 = u1
    u2 = u2
    i1 = i1
    i2 = i2
    Users = {u1, u2}
    Verified = {u1, u2}
    Creator = u1
    Invitations = {i1, i2}
    MaxJoins = 2
INVARIANT HasOwner
PROPERTY OwnersDecideOnOwners
PROPERTY JoiningConsumesInvitation
CHECK_DEADLOCK FALSE
