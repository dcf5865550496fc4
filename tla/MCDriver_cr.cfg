\* From a CR with a pathConfig to CRs with one pool and with two, and one change of the
\* profile, with one restart and one failed pass.
CONSTANTS
    Profiles <- MCProfiles
    Overrides <- MCOverrides
    Specs <- MCSpecs
    FirstSpec <- MCFirstSpec
    Nodes <- MCNodes
    MaxProfiles = 1
    MaxRestarts = 1
    MaxSpecs = 1
    MaxFails = 1
SPECIFICATION Spec
INVARIANTS TypeOK NamesApart DriverAtLeast
PROPERTIES PoolsServed EndpointsFollow
