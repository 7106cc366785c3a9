\* Three requests, one worker, the domain that redirects, localhost and the two addresses.
SPECIFICATION FairSpec
CONSTANTS
    Procs = {r1, r2, r3}
    Workers = {w1}
    None = None
    www = www
    redir = redir
    Domains = {www}
    RouterOf <- MainDomains
    Default = Default
    HttpAddr = HttpAddr
    HttpsAddr = HttpsAddr
    Localhost = Localhost
    Others = {}
INVARIANTS
    TypeOK
    DomainIsServed
    LookupsMeetAddresses
    
PROPERTIES
    EveryRequestAnswered
    WorkersComeBack
