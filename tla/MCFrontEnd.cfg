SPECIFICATION Spec
CONSTANTS
    MaxGen = 3
    MaxHits = 2
    CellWidth = 4
    Inside <- MCInside
    QueryAt <- MCQueryAt
    Sources <- MCSources
    ForwardHits <- MCForwardHits
    FstHits <- MCFstHits
    Respelt <- MCRespelt
    Respaced <- MCRespaced
    IpDb <- MCIpDb
    Requests <- MCRequests
    Deployments <- MCDeployments
    TwoLetter = {"AU", "GB", "NZ"}
    PostalTexts = {"2000", "2001"}
    NormalForm <- MCNormalForm
    HasDigit = {"2000", "2001"}
    LondonBoroughs = {"London Borough of Camden"}
    Numbers <- MCNumbers
CHECK_DEADLOCK FALSE
INVARIANTS TypeOK OneSnapshot OnlyOwnHouse VerifiedIsStored SurfacesAgree StaleIsNoticed MatchesOverDoors
