CONSTANTS
    h1 = h1  h2 = h2  r1 = r1  r2 = r2
    n1 = n1  n2 = n2  n3 = n3  m1 = m1  m2 = m2
    NoRinstance = NoRinstance
    NullProfile = NullProfile
    Hosts <- MC_Hosts
    Rinstances <- MC_Rinstances
    Names <- MC_Names
    MediaAddresses <- MC_MediaAddresses
    ContactUris <- MC_ContactUris
    ProfileValues <- MC_ProfileValues
    ToAors <- MC_ToAors
    ProfileHandles = {1, 2}
    MaxContacts = 2
SPECIFICATION Spec
CHECK_DEADLOCK FALSE
INVARIANTS
    TypeOK
    IncomingFollowsSelectionRule
    MediaLookupFindsFirst
