SPECIFICATION Spec
CONSTANTS
    b1 = b1
    b1x = b1x
    b0 = b0
    g1 = g1
    g2 = g2
    x1 = x1
    x2 = x2
    r1 = r1
    r2 = r2
    f1 = f1
    NoText = NoText
    Bodies = {b1, b1x, b0, NoText}
    Typed = {b1}
    PostedIds <- MCPostedIds
    GoogleIds = {g1, g2}
    NoId = {}
    FormIds = {f1}
    Slugs = {x1, x2}
    Imports = {r1}
    Refreshes = {r2}
    Uses <- MCUses
    Sources = {"gbp", "places"}
    JobStatuses = {"active", "draft", "expired"}
    EditTimes <- MCEditTimes
    Past = {1}
    Present = {2}
    Stars <- MCStars
    Trim <- MCTrim
    OnGoogle <- MCOnGoogle
    FirstFiles <- MCFiles
    FirstJobs <- MCJobs
    PageSize = 1
    PlacesMax = 1
    MinRating = 5
    Limit = 2
    MaxRepoImport = 2
    MaxBulk = 2
    MaxReviews = 1
INVARIANTS
    TypeOK
PROPERTIES
    NoDoubling
    BringsAll
