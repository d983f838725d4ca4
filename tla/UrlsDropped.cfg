SPECIFICATION Spec
CONSTANTS
    a = a
    b = b
    ip1 = ip1
    ip2 = ip2
    lan = lan
    None = None
    Hosts = {a, b}
    IPs = {ip1, ip2, lan}
    Private = {lan}
    Dns <- StableDns
    Ports = {1, 2}
    Threads = {1, 2}
    Batches <- OddBatches
    QueueMax = 2
    MayCrash = FALSE
PROPERTY EachUrlConsidered
