\* Two submissions of one customer, two restaurants, a change of the menu.
CONSTANTS
    a1 = a1
    a2 = a2
    b1 = b1
    A = A
    B = B
    Items = {a1, a2, b1}
    Restaurants = {A, B}
    RestaurantOf <- RestaurantOfMC
    Prices = {1, 2}
    FirstMenu <- FirstMenuMC
    MaxSubmissions = 2
    MaxChanges = 1
SPECIFICATION Spec
INVARIANTS
    CheckoutTypeOK
    CartIsOfOneRestaurant
    OrdersAreCounted
PROPERTIES
    FailedSubmissionKeepsCart
    ClearedWhatWasOrdered
    SubmissionEnds
    FollowsTheBook
